---- MODULE Spec2Model ----
(***************************************************************************)
(* Model of the Ravensburger Play API client: the completion-aware caches  *)
(* of lib/api.ts (fetchEventDetails, fetchAllRoundStandings,               *)
(* getEventStandings, clearCaches, evictIfNeeded) and the retrying fetch   *)
(* of lib/http.ts (fetchWithRetry and its delay helpers).                  *)
(*                                                                         *)
(* Line numbers written api.ts:n refer to src/unnamed/part_003, those      *)
(* written http.ts:n to src/src/lib/types.ts, where the text of http.ts    *)
(* starts at line 232.                                                     *)
(*                                                                         *)
(* Spec      : concurrent async calls on the two process-wide caches.      *)
(*             Every `await` of the source is a suspension point, i.e. a   *)
(*             separate action; code between two awaits is one action.     *)
(* SpecRetry : one fetchWithRetry call, attempt by attempt.                *)
(* SpecResolve : one fetchAllEventStandings call, await by await.          *)
(* SpecPages : fetchAllRoundStandings against any sequence of pages.       *)
(* SpecLeaderboard : the aggregation loop of get_player_leaderboard        *)
(*             (tools/events.ts), one entry per step.                      *)
(* SpecBoard : that loop followed by the filter, sort and cut.             *)
(* SpecTool  : the get_event_standings tool next to getEventStandings.     *)
(* SpecBackoff, SpecRecord : getJitteredBackoffDelayMs and                 *)
(*             parseRecordToWinsLosses (lib/formatters.ts) on their inputs.*)
(***************************************************************************)
EXTENDS Integers, Sequences, FiniteSets, TLC

VARIABLES
  eventCache,           \* Map<number, Event>, as its insertion-ordered entry list
  roundStandingsCache,  \* Map<number, StandingEntry[]>, same representation
  upstreamEvent,        \* what the upstream API currently holds for each event id
  calls,                \* the in-flight async calls, one record per caller slot
  eventKnown,           \* history: event ids returned complete, not since evicted/cleared
  roundKnown,           \* history: round ids returned from a past-event fetch, likewise
  olderEvent,           \* history: <<a, b>> when event key a was inserted before key b
  olderRound,           \* history: the same for the round-standings cache
  evicted,              \* history: the keys the last step evicted
  rpc,                  \* fetchWithRetry: where the call is
  policy,               \* fetchWithRetry: the FetchPolicy and whether init.signal is set
  attempt,              \* fetchWithRetry: the loop variable
  ctrl,                 \* the attempt's AbortController: not aborted, or its abort reason
  extAborted,           \* init.signal: not aborted, or its abort reason
  last,                 \* what the latest attempt ended with (a response or an error)
  delay,                \* the argument of the pending or latest sleep
  result,               \* how fetchWithRetry settled: a response returned or a value thrown
  fetchCalls,           \* history: number of fetch() invocations of this call
  firstOk,              \* history: attempt 0 ended with a 2xx response
  callsAfterAbort,      \* history: attempts begun after init.signal was aborted
  rand,                 \* history: the Math.random() draw behind the latest backoff
  fnIn,                 \* the arguments of a pure function under test
  fnOut,                \* its return value, once it has been applied
  faes,                 \* fetchAllEventStandings: its frame (ids, loop index, results)
  res,                  \* the getEventStandings call of each position of ids
  hist,                 \* history of each of these calls (rounds tried, page requests)
  writer,               \* history: the position whose call wrote a cache last (0: none yet)
  lb,                   \* the LeaderboardResult fields computed from the results
  eventStandings,       \* get_player_leaderboard: the standings list of each resolved event
  pos,                  \* its nested loop: event e (from 1), entry index i (from 0)
  agg,                  \* its Map<string, {...}> of aggregates, as insertion-ordered entries
  board                 \* its players list once filtered, sorted and cut, with the arguments used

cacheVars == <<eventCache, roundStandingsCache, upstreamEvent, calls,
               eventKnown, roundKnown, olderEvent, olderRound, evicted>>

retryVars == <<rpc, policy, attempt, ctrl, extAborted, last, delay, result,
               fetchCalls, firstOk, callsAfterAbort, rand>>

pureVars == <<fnIn, fnOut>>

resolveVars == <<faes, res, hist, writer, lb>>

leaderVars == <<eventStandings, pos, agg, board>>

vars == <<cacheVars, retryVars, pureVars, resolveVars, leaderVars>>

\* What the actions of each part leave alone.
nonCacheVars == <<retryVars, pureVars, resolveVars, leaderVars>>
nonRetryVars == <<cacheVars, pureVars, resolveVars, leaderVars>>
nonPureVars == <<cacheVars, retryVars, resolveVars, leaderVars>>
nonResolveVars == <<upstreamEvent, calls, eventKnown, roundKnown, olderEvent, olderRound,
                    evicted, retryVars, pureVars, leaderVars>>
nonLeaderVars == <<cacheVars, retryVars, pureVars, resolveVars>>

(***************************************************************************)
(* Bounds and scaled program constants.                                    *)
(***************************************************************************)
\* api.ts: EVENT_CACHE_MAX_SIZE = 500, scaled so that eviction is reachable.
EVENT_CACHE_MAX_SIZE == 2
\* api.ts: ROUND_STANDINGS_CACHE_MAX_SIZE = 1000, scaled likewise.
ROUND_STANDINGS_CACHE_MAX_SIZE == 1
\* api.ts: STANDINGS_PAGE_SIZE = 100, scaled.
STANDINGS_PAGE_SIZE == 2
\* api.ts: STANDINGS_MAX_PAGES = 50, scaled.
STANDINGS_MAX_PAGES == 3

\* Two overlapping callers.  Caller 1 makes every call; caller 2 is the
\* interfering one and makes the calls that read or write a cache, one by
\* one, which gives every interleaving of cache accesses a second
\* getEventStandings could produce.
Procs == {1, 2}
GesProcs == {1}
FreshProcs == {1}
EventIds == {1, 2, 3}
RoundIds == {1, 2, 3, 4}

UNDEFINED == "undefined"

\* A value that may be missing (null, undefined, nothing yet): << >> or <<v>>.
Nothing == << >>
Some(v) == <<v>>

Min(a, b) == IF a <= b THEN a ELSE b
Max(a, b) == IF a >= b THEN a ELSE b

(***************************************************************************)
(* Upstream data.  An event is the JSON the API returns for /events/{id}/: *)
(* display_status and settings.event_lifecycle_status are the two fields   *)
(* isEventCompleted reads; tournament_phases is fixed per event id.        *)
(***************************************************************************)
DisplayStatuses == {"upcoming", "inProgress", "Past"}
LifecycleStatuses == {UNDEFINED, "COMPLETED"}

EventShapes ==
  { [display_status |-> "upcoming",   event_lifecycle_status |-> UNDEFINED],
    [display_status |-> "inProgress", event_lifecycle_status |-> UNDEFINED],
    [display_status |-> "Past",       event_lifecycle_status |-> UNDEFINED],
    [display_status |-> "inProgress", event_lifecycle_status |-> "COMPLETED"] }

\* String.prototype.toLowerCase on the strings the model uses.
toLowerCase(s) ==
  CASE s = "Past" -> "past"
    [] s = "COMPLETED" -> "completed"
    [] s = "inProgress" -> "inprogress"
    [] OTHER -> s

\* event.tournament_phases of each event: phases in order, rounds in order.
TournamentPhases(eventId) ==
  CASE eventId = 1 ->
         << [rounds |-> << [id |-> 1, round_number |-> 1],
                           [id |-> 2, round_number |-> 2] >>],
            [rounds |-> << [id |-> 3, round_number |-> 1] >>] >>
    [] eventId = 3 ->
         << [rounds |-> << [id |-> 4, round_number |-> 1] >>],
            [rounds |-> << >>] >>
    [] eventId = 4 ->
         << [rounds |-> << [id |-> 5, round_number |-> 1],
                           [id |-> 6, round_number |-> 2],
                           [id |-> 7, round_number |-> 2] >>] >>
    [] eventId = 5 ->
         << [rounds |-> << >>] >>
    [] OTHER -> << >>

\* The event a round belongs to.
EventOfRound(roundId) == IF roundId = 4 THEN 3 ELSE 1

\* Number of standing entries a round has once its event is complete.
FinalCount(roundId) ==
  CASE roundId = 1 -> STANDINGS_PAGE_SIZE
    [] roundId = 2 -> STANDINGS_PAGE_SIZE + 1
    [] roundId = 3 -> 0
    [] OTHER -> 1

\* A standing entry is identified by its round and its rank.
Standings(roundId, n) == [i \in 1..n |-> <<roundId, i>>]

\* What the upstream holds at start: two finished events (one marked by
\* display_status, one by the lifecycle status) and one still to come.
InitialUpstream ==
  [e \in EventIds |->
     CASE e = 1 -> [display_status |-> "Past", event_lifecycle_status |-> UNDEFINED]
       [] e = 2 -> [display_status |-> "inProgress", event_lifecycle_status |-> "COMPLETED"]
       [] OTHER -> [display_status |-> "upcoming", event_lifecycle_status |-> UNDEFINED]]

\* The upstream's own view: the event is over and its data is final.
Finished(shape) ==
  shape.display_status = "Past" \/ shape.event_lifecycle_status = "COMPLETED"

MakeEvent(eventId, shape) ==
  [id |-> eventId,
   display_status |-> shape.display_status,
   event_lifecycle_status |-> shape.event_lifecycle_status]

(***************************************************************************)
(* A JavaScript Map as the list of its entries in insertion order.         *)
(***************************************************************************)
MapKeys(m) == {m[i].key : i \in 1..Len(m)}

MapHas(m, k) == k \in MapKeys(m)

\* Map.prototype.get: undefined for a missing key.
MapGet(m, k) ==
  IF MapHas(m, k)
    THEN Some((CHOOSE e \in {m[i] : i \in 1..Len(m)} : e.key = k).value)
    ELSE Nothing

\* Map.prototype.set: an existing key keeps its position, a new key goes last.
MapSet(m, k, v) ==
  IF MapHas(m, k)
    THEN [i \in 1..Len(m) |-> IF m[i].key = k THEN [key |-> k, value |-> v] ELSE m[i]]
    ELSE Append(m, [key |-> k, value |-> v])

\* Map.prototype.delete
MapDelete(m, k) == SelectSeq(m, LAMBDA e : e.key # k)

RECURSIVE MapDeleteAll(_, _)
MapDeleteAll(m, keys) ==
  IF keys = << >> THEN m
  ELSE MapDeleteAll(MapDelete(m, Head(keys)), Tail(keys))

\* A plausible slip: the newest keys are collected instead of the oldest.
evictIfNeeded_newest(cache, maxSize) ==
  IF Len(cache) <= maxSize THEN cache
  ELSE SubSeq(cache, 1, maxSize)

\* A plausible slip: the size check is off by one.
evictIfNeeded_offByOne(cache, maxSize) ==
  IF Len(cache) <= maxSize + 1 THEN cache
  ELSE SubSeq(cache, Len(cache) - maxSize, Len(cache))

evictIfNeeded(cache, maxSize) ==
  IF Len(cache) <= maxSize THEN cache
  ELSE LET toDelete == Len(cache) - maxSize
           keysToDelete == [i \in 1..toDelete |-> cache[i].key]
       IN  MapDeleteAll(cache, keysToDelete)

\* A plausible slip: only display_status is consulted, and any value but
\* "upcoming" counts as finished.
isEventCompleted_notUpcoming(event) ==
  toLowerCase(event.display_status) # "upcoming"

isEventCompleted(event) ==
  LET status == toLowerCase(event.display_status)
      lifecycle == toLowerCase(event.event_lifecycle_status)
  IN  status = "past" \/ lifecycle = "completed" \/ lifecycle = "past"

(***************************************************************************)
(* Async calls.  pc is the suspension point a call is parked at:           *)
(*   idle        no call in this slot                                      *)
(*   fed_await   fetchEventDetails awaits fetchWithRetry (api.ts:179)      *)
(*   fars_await  fetchAllRoundStandings awaits a page (api.ts:388)         *)
(*   ges_event   getEventStandings resumes after fetchEventDetails (405)   *)
(*   ges_round   getEventStandings resumes after fetchAllRoundStandings    *)
(*               returned or threw (429..435)                              *)
(*   returned / threw   the top-level promise settled                      *)
(***************************************************************************)
\* issued, expect, wasCached and lookedUp are history: a request was sent by
\* the fetch function the call is in, the value the history promises, the
\* key was cached on entry, the function executed its cache.get.  So are
\* pastAtCall (the upstream held the event as finished when
\* getEventStandings was called) and everFailed (a request of the call
\* has failed).
IdleCall ==
  [top |-> "none", pc |-> "idle", eventId |-> 0, roundId |-> 0,
   isPastEvent |-> FALSE, all |-> << >>, page |-> 0, event |-> Nothing,
   rounds |-> << >>, failed |-> FALSE, result |-> Nothing,
   issued |-> FALSE, expect |-> Nothing, wasCached |-> FALSE, lookedUp |-> FALSE,
   pastAtCall |-> FALSE, everFailed |-> FALSE]

\* Array.prototype.sort with the comparator of getEventStandings: a stable
\* insertion of each element before the first one it precedes.
RoundBefore(a, b) ==
  LET byPhase == b.phase_index - a.phase_index
      byNumber == b.round_number - a.round_number
      byId == b.id - a.id
      cmp == IF byPhase # 0 THEN byPhase
             ELSE IF byNumber # 0 THEN byNumber ELSE byId
  IN  cmp < 0

RECURSIVE InsertRound(_, _)
InsertRound(sorted, r) ==
  IF sorted = << >> THEN <<r>>
  ELSE IF RoundBefore(r, Head(sorted)) THEN <<r>> \o sorted
  ELSE <<Head(sorted)>> \o InsertRound(Tail(sorted), r)

\* A plausible slip: the candidates are tried in the order of the response.
SortRounds_unsorted(rs) == rs

RECURSIVE SortRounds(_)
SortRounds(rs) ==
  IF rs = << >> THEN << >>
  ELSE InsertRound(SortRounds(SubSeq(rs, 1, Len(rs) - 1)), rs[Len(rs)])

\* api.ts:411..418: every round of every phase, tagged with its phase index.
RECURSIVE FlattenRounds(_, _)
FlattenRounds(phases, phaseIndex) ==
  IF phaseIndex >= Len(phases) THEN << >>
  ELSE LET phase == phases[phaseIndex + 1]
           tagged == [i \in 1..Len(phase.rounds) |->
                        [id |-> phase.rounds[i].id,
                         round_number |-> phase.rounds[i].round_number,
                         phase_index |-> phaseIndex]]
       IN  tagged \o FlattenRounds(phases, phaseIndex + 1)

(***************************************************************************)
(* The synchronous stretches of the three functions, as functions from the *)
(* caller's record (and the cache they touch) to the record at the next    *)
(* suspension point.                                                       *)
(***************************************************************************)
\* fetchEventDetails settles: a top-level call is done, getEventStandings
\* resumes at api.ts:406.
FedReturn(c, event) ==
  IF c.top = "fetchEventDetails"
    THEN [c EXCEPT !.pc = "returned", !.result = Some(event)]
    ELSE [c EXCEPT !.pc = "ges_event", !.event = Some(event)]

\* api.ts:187..190; getEventStandings does not catch it, so it fails too.
FedThrow(c) == [c EXCEPT !.pc = "threw", !.result = Nothing]

\* A plausible slip: the cache is never consulted.
FedEnter_noRead(c, eventId, cache) ==
  [c EXCEPT !.eventId = eventId, !.pc = "fed_await", !.issued = TRUE,
            !.wasCached = MapHas(cache, eventId), !.lookedUp = FALSE]

\* api.ts:170..185: the cache lookup, then the request is sent.
FedEnter(c, eventId, cache) ==
  LET cached == MapGet(cache, eventId)
      c1 == [c EXCEPT !.eventId = eventId, !.issued = FALSE,
                      !.wasCached = MapHas(cache, eventId), !.lookedUp = TRUE]
  IN  IF cached # Nothing
        THEN FedReturn(c1, cached[1])
        ELSE [c1 EXCEPT !.pc = "fed_await", !.issued = TRUE]

\* A plausible slip: the event is stored whatever its state.
FedStore_anyState(cache, eventId, event) ==
  evictIfNeeded(MapSet(cache, eventId, event), EVENT_CACHE_MAX_SIZE)

\* api.ts:194..198: the event cache after a successful response.
FedStore(cache, eventId, event) ==
  IF isEventCompleted(event)
    THEN evictIfNeeded(MapSet(cache, eventId, event), EVENT_CACHE_MAX_SIZE)
    ELSE cache

\* fetchAllRoundStandings settles with a list: a top-level call is done,
\* getEventStandings resumes at api.ts:430.
FarsReturn(c, standings) ==
  IF c.top = "fetchAllRoundStandings"
    THEN [c EXCEPT !.pc = "returned", !.result = Some(standings)]
    ELSE [c EXCEPT !.pc = "ges_round", !.all = standings, !.failed = FALSE]

\* A plausible slip: no try/catch around the round's fetch.
FarsThrow_fatal(c) == [c EXCEPT !.pc = "threw", !.result = Nothing]

\* fetchTournamentRoundStandings threw (api.ts:245..248): the top-level call
\* fails, getEventStandings resumes in its catch (api.ts:433).
FarsThrow(c) ==
  IF c.top = "fetchAllRoundStandings"
    THEN [c EXCEPT !.pc = "threw", !.result = Nothing]
    ELSE [c EXCEPT !.pc = "ges_round", !.all = << >>, !.failed = TRUE,
                   !.everFailed = TRUE]

\* A plausible slip: the length of the list is not tested.
FarsStore_cachesEmpty(c, cache) ==
  IF c.isPastEvent
    THEN evictIfNeeded(MapSet(cache, c.roundId, c.all), ROUND_STANDINGS_CACHE_MAX_SIZE)
    ELSE cache

\* api.ts:394..398: the round cache once the page loop has ended.
FarsStore(c, cache) ==
  IF c.isPastEvent /\ Len(c.all) > 0
    THEN evictIfNeeded(MapSet(cache, c.roundId, c.all), ROUND_STANDINGS_CACHE_MAX_SIZE)
    ELSE cache

\* A plausible slip: the page cap is off by one.
FarsLoop_offByOne(c, hasMore) ==
  IF hasMore /\ c.page <= STANDINGS_MAX_PAGES + 1
    THEN [c EXCEPT !.pc = "fars_await", !.issued = TRUE]
    ELSE FarsReturn(c, c.all)

\* api.ts:387: the loop test; either the next page is requested or the
\* function stores and returns.
FarsLoop(c, hasMore) ==
  IF hasMore /\ c.page <= STANDINGS_MAX_PAGES
    THEN [c EXCEPT !.pc = "fars_await", !.issued = TRUE]
    ELSE FarsReturn(c, c.all)

\* A plausible slip: the cache is read whatever isPastEvent says.
FarsEnter_alwaysRead(c, roundId, isPastEvent, cache) ==
  LET cached == MapGet(cache, roundId)
      c1 == [c EXCEPT !.roundId = roundId, !.isPastEvent = isPastEvent,
                      !.all = << >>, !.page = 1, !.issued = FALSE,
                      !.wasCached = MapHas(cache, roundId), !.lookedUp = TRUE]
  IN  IF cached # Nothing THEN FarsReturn(c1, cached[1]) ELSE FarsLoop(c1, TRUE)

\* api.ts:374..388: the cache lookup, then the first page is requested.
FarsEnter(c, roundId, isPastEvent, cache) ==
  LET cached == MapGet(cache, roundId)
      c1 == [c EXCEPT !.roundId = roundId, !.isPastEvent = isPastEvent,
                      !.all = << >>, !.page = 1, !.issued = FALSE,
                      !.wasCached = MapHas(cache, roundId),
                      !.lookedUp = isPastEvent]
  IN  IF isPastEvent /\ cached # Nothing
        THEN FarsReturn(c1, cached[1])
        ELSE FarsLoop(c1, TRUE)

\* api.ts:427..437: the next candidate round, or null when none is left.
GesNextRound(c, cache) ==
  IF c.rounds = << >>
    THEN [c EXCEPT !.pc = "returned", !.result = Nothing]
    ELSE FarsEnter([c EXCEPT !.rounds = Tail(c.rounds)],
                   Head(c.rounds).id, c.isPastEvent, cache)

\* A plausible slip: the rounds are fetched as rounds of a past event
\* whatever the state of the event.
GesAfterEvent_alwaysPast(c, cache) ==
  LET phases == TournamentPhases(c.event[1].id)
  IN  IF Len(phases) = 0
        THEN [c EXCEPT !.pc = "returned", !.result = Nothing]
        ELSE GesNextRound(
               [c EXCEPT !.isPastEvent = TRUE,
                         !.rounds = SortRounds(FlattenRounds(phases, 0))],
               cache)

\* api.ts:406..426: phases, the completeness flag and the sorted round list.
GesAfterEvent(c, cache) ==
  LET phases == TournamentPhases(c.event[1].id)
  IN  IF Len(phases) = 0
        THEN [c EXCEPT !.pc = "returned", !.result = Nothing]
        ELSE GesNextRound(
               [c EXCEPT !.isPastEvent = isEventCompleted(c.event[1]),
                         !.rounds = SortRounds(FlattenRounds(phases, 0))],
               cache)

\* api.ts:430..435: a non-empty list ends the search, an empty one or a
\* failure moves on.
GesAfterRound(c, cache) ==
  IF ~c.failed /\ Len(c.all) > 0
    THEN [c EXCEPT !.pc = "returned",
                   !.result = Some([event |-> c.event[1], standings |-> c.all])]
    ELSE GesNextRound(c, cache)

(***************************************************************************)
(* What the upstream answers.                                              *)
(***************************************************************************)
\* GET /events/{id}/ at this moment.
UpstreamEventNow(eventId) == MakeEvent(eventId, upstreamEvent[eventId])

\* The sizes a round's standings list can have at this moment: final once
\* the event is complete, still growing before.
UpstreamCounts(roundId) ==
  IF Finished(upstreamEvent[EventOfRound(roundId)])
    THEN {FinalCount(roundId)}
    ELSE 0..FinalCount(roundId)

\* GET /tournament-rounds/{id}/standings/paginated/?page=..&page_size=..
PageResponse(roundId, page, n) ==
  LET from == (page - 1) * STANDINGS_PAGE_SIZE + 1
      to == Min(page * STANDINGS_PAGE_SIZE, n)
  IN  [results |-> SubSeq(Standings(roundId, n), from, to),
       next_page_number |-> IF page * STANDINGS_PAGE_SIZE < n THEN Some(page + 1) ELSE Nothing]

(***************************************************************************)
(* History bookkeeping (no effect on the program state).                   *)
(***************************************************************************)
\* fetchEventDetails handed an event to its caller in the step that left c.
FedReturned(c) ==
  \/ c.top = "fetchEventDetails" /\ c.pc = "returned"
  \/ c.top = "getEventStandings" /\ c.pc = "ges_event"

FedValue(c) == IF c.top = "fetchEventDetails" THEN c.result[1] ELSE c.event[1]

\* fetchAllRoundStandings handed a list to its caller in the step that left c.
FarsReturned(c) ==
  \/ c.top = "fetchAllRoundStandings" /\ c.pc = "returned"
  \/ c.top = "getEventStandings" /\ c.pc = "ges_round" /\ ~c.failed

FarsValue(c) == IF c.top = "fetchAllRoundStandings" THEN c.result[1] ELSE c.all

Gone(old, new) == MapKeys(old) \ MapKeys(new)

EventKnownAfter(c, old, new, fedStep) ==
  LET base == [e \in EventIds |-> IF e \in Gone(old, new) THEN Nothing ELSE eventKnown[e]]
  IN  IF fedStep /\ FedReturned(c) /\ Finished(FedValue(c))
        THEN [base EXCEPT ![c.eventId] = Some(FedValue(c))]
        ELSE base

RoundKnownAfter(c, old, new, farsStep) ==
  LET base == [r \in RoundIds |-> IF r \in Gone(old, new) THEN Nothing ELSE roundKnown[r]]
  IN  IF farsStep /\ FarsReturned(c) /\ c.isPastEvent /\ Len(FarsValue(c)) > 0
        THEN [base EXCEPT ![c.roundId] = Some(FarsValue(c))]
        ELSE base

OlderAfter(older, old, new) ==
  LET added == MapKeys(old) \X (MapKeys(new) \ MapKeys(old))
  IN  {pr \in older \cup added : pr[1] \in MapKeys(new) /\ pr[2] \in MapKeys(new)}

EvictedAfter(oldE, newE, oldR, newR) ==
  {<<"event", k>> : k \in Gone(oldE, newE)} \cup {<<"round", k>> : k \in Gone(oldR, newR)}

\* The value the history promises for the fetch c has just entered.
ExpectFed(eventId) == eventKnown[eventId]
ExpectFars(roundId, isPastEvent) == IF isPastEvent THEN roundKnown[roundId] ELSE Nothing

History(c, newE, newR, fedStep, farsStep) ==
  /\ eventKnown' = EventKnownAfter(c, eventCache, newE, fedStep)
  /\ roundKnown' = RoundKnownAfter(c, roundStandingsCache, newR, farsStep)
  /\ olderEvent' = OlderAfter(olderEvent, eventCache, newE)
  /\ olderRound' = OlderAfter(olderRound, roundStandingsCache, newR)
  /\ evicted' = EvictedAfter(eventCache, newE, roundStandingsCache, newR)

(***************************************************************************)
(* Actions of Spec.                                                        *)
(***************************************************************************)
CacheInit ==
  /\ eventCache = << >>
  /\ roundStandingsCache = << >>
  /\ upstreamEvent = InitialUpstream
  /\ calls = [p \in Procs |-> IdleCall]
  /\ eventKnown = [e \in EventIds |-> Nothing]
  /\ roundKnown = [r \in RoundIds |-> Nothing]
  /\ olderEvent = {}
  /\ olderRound = {}
  /\ evicted = {}

\* A caller invokes fetchEventDetails(eventId).
CallFetchEventDetails(p, eventId) ==
  /\ calls[p].pc = "idle"
  /\ LET c0 == [IdleCall EXCEPT !.top = "fetchEventDetails", !.expect = ExpectFed(eventId)]
         c1 == FedEnter(c0, eventId, eventCache)
     IN  /\ calls' = [calls EXCEPT ![p] = c1]
         /\ History(c1, eventCache, roundStandingsCache, TRUE, FALSE)
  /\ UNCHANGED <<eventCache, roundStandingsCache, upstreamEvent>>
  /\ UNCHANGED nonCacheVars

\* fetchWithRetry settles for a pending fetchEventDetails: a 2xx response
\* carrying the event as the upstream holds it now, or a failure (a non-ok
\* response or a thrown error, both of which make fetchEventDetails throw).
FedResponse(p, ok) ==
  /\ calls[p].pc = "fed_await"
  /\ LET c == calls[p]
         event == UpstreamEventNow(c.eventId)
         newE == IF ok THEN FedStore(eventCache, c.eventId, event) ELSE eventCache
         c1 == IF ok THEN FedReturn(c, event) ELSE FedThrow(c)
     IN  /\ eventCache' = newE
         /\ calls' = [calls EXCEPT ![p] = c1]
         /\ History(c1, newE, roundStandingsCache, ok, FALSE)
  /\ UNCHANGED <<roundStandingsCache, upstreamEvent>>
  /\ UNCHANGED nonCacheVars

\* A caller invokes fetchAllRoundStandings(roundId, isPastEvent); per the
\* function's contract isPastEvent is true only for a round of a past event.
CallFetchAllRoundStandings(p, roundId, isPastEvent) ==
  /\ calls[p].pc = "idle"
  /\ isPastEvent => Finished(upstreamEvent[EventOfRound(roundId)])
  /\ ~isPastEvent => p \in FreshProcs
  /\ LET c0 == [IdleCall EXCEPT !.top = "fetchAllRoundStandings",
                                !.expect = ExpectFars(roundId, isPastEvent)]
         c1 == FarsEnter(c0, roundId, isPastEvent, roundStandingsCache)
     IN  /\ calls' = [calls EXCEPT ![p] = c1]
         /\ History(c1, eventCache, roundStandingsCache, FALSE, TRUE)
  /\ UNCHANGED <<eventCache, roundStandingsCache, upstreamEvent>>
  /\ UNCHANGED nonCacheVars

\* A plausible slip: the list is stored after every page.
FarsResponse_storesEachPage(p, ok) ==
  /\ calls[p].pc = "fars_await"
  /\ \E n \in UpstreamCounts(calls[p].roundId) :
       LET c == calls[p]
           response == PageResponse(c.roundId, c.page, n)
           hasMore == /\ response.next_page_number # Nothing
                      /\ Len(response.results) = STANDINGS_PAGE_SIZE
           c1 == [c EXCEPT !.all = c.all \o response.results, !.page = c.page + 1]
           c2 == IF ok THEN FarsLoop(c1, hasMore) ELSE FarsThrow(c)
           newR == IF ok THEN FarsStore(c1, roundStandingsCache)
                   ELSE roundStandingsCache
       IN  /\ roundStandingsCache' = newR
           /\ calls' = [calls EXCEPT ![p] = c2]
           /\ History(c2, eventCache, newR, FALSE, ok /\ c2.pc # "fars_await")
  /\ UNCHANGED <<eventCache, upstreamEvent>>
  /\ UNCHANGED nonCacheVars

\* One page request of a pending fetchAllRoundStandings settles: with a page
\* of the list as the upstream holds it now, or with a failure.
FarsResponse(p, ok) ==
  /\ calls[p].pc = "fars_await"
  /\ \E n \in UpstreamCounts(calls[p].roundId) :
       LET c == calls[p]
           response == PageResponse(c.roundId, c.page, n)
           hasMore == /\ response.next_page_number # Nothing
                      /\ Len(response.results) = STANDINGS_PAGE_SIZE
           c1 == [c EXCEPT !.all = c.all \o response.results, !.page = c.page + 1]
           c2 == IF ok THEN FarsLoop(c1, hasMore) ELSE FarsThrow(c)
           newR == IF ok /\ c2.pc # "fars_await"
                     THEN FarsStore(c1, roundStandingsCache)
                     ELSE roundStandingsCache
       IN  /\ roundStandingsCache' = newR
           /\ calls' = [calls EXCEPT ![p] = c2]
           /\ History(c2, eventCache, newR, FALSE, ok /\ c2.pc # "fars_await")
  /\ UNCHANGED <<eventCache, upstreamEvent>>
  /\ UNCHANGED nonCacheVars

\* A caller invokes getEventStandings(eventId), which enters
\* fetchEventDetails at once.
CallGetEventStandings(p, eventId) ==
  /\ calls[p].pc = "idle"
  /\ LET c0 == [IdleCall EXCEPT !.top = "getEventStandings", !.expect = ExpectFed(eventId),
                                !.pastAtCall = Finished(upstreamEvent[eventId])]
         c1 == FedEnter(c0, eventId, eventCache)
     IN  /\ calls' = [calls EXCEPT ![p] = c1]
         /\ History(c1, eventCache, roundStandingsCache, TRUE, FALSE)
  /\ UNCHANGED <<eventCache, roundStandingsCache, upstreamEvent>>
  /\ UNCHANGED nonCacheVars

\* getEventStandings resumes with the event and enters the first round.
GesResumeEvent(p) ==
  /\ calls[p].pc = "ges_event"
  /\ LET c1 == GesAfterEvent(calls[p], roundStandingsCache)
         c2 == [c1 EXCEPT !.expect = IF c1.pc \in {"fars_await", "ges_round"}
                                       THEN ExpectFars(c1.roundId, c1.isPastEvent)
                                       ELSE Nothing]
     IN  /\ calls' = [calls EXCEPT ![p] = c2]
         /\ History(c2, eventCache, roundStandingsCache, FALSE, c2.pc = "ges_round")
  /\ UNCHANGED <<eventCache, roundStandingsCache, upstreamEvent>>
  /\ UNCHANGED nonCacheVars

\* getEventStandings resumes with a round's list (or its failure) and
\* returns or enters the next round.
GesResumeRound(p) ==
  /\ calls[p].pc = "ges_round"
  /\ LET c1 == GesAfterRound(calls[p], roundStandingsCache)
         c2 == [c1 EXCEPT !.expect = IF c1.pc \in {"fars_await", "ges_round"}
                                       THEN ExpectFars(c1.roundId, c1.isPastEvent)
                                       ELSE Nothing]
     IN  /\ calls' = [calls EXCEPT ![p] = c2]
         /\ History(c2, eventCache, roundStandingsCache, FALSE, c2.pc = "ges_round")
  /\ UNCHANGED <<eventCache, roundStandingsCache, upstreamEvent>>
  /\ UNCHANGED nonCacheVars

\* The caller takes the settled result; the slot is free again.
Settle(p) ==
  /\ calls[p].pc \in {"returned", "threw"}
  /\ calls' = [calls EXCEPT ![p] = IdleCall]
  /\ evicted' = {}
  /\ UNCHANGED <<eventCache, roundStandingsCache, upstreamEvent,
                 eventKnown, roundKnown, olderEvent, olderRound>>
  /\ UNCHANGED nonCacheVars

\* api.ts:87..90
clearCaches ==
  /\ eventCache' = << >>
  /\ roundStandingsCache' = << >>
  /\ eventKnown' = [e \in EventIds |-> Nothing]
  /\ roundKnown' = [r \in RoundIds |-> Nothing]
  /\ olderEvent' = {}
  /\ olderRound' = {}
  /\ evicted' = {}
  /\ UNCHANGED <<upstreamEvent, calls>>
  /\ UNCHANGED nonCacheVars

\* The upstream moves an event forward (upcoming, in progress, finished);
\* a complete event never changes again.
UpstreamAdvance(eventId) ==
  /\ ~Finished(upstreamEvent[eventId])
  /\ \E shape \in EventShapes :
       /\ \/ upstreamEvent[eventId].display_status = "upcoming"
             /\ shape.display_status = "inProgress"
             /\ shape.event_lifecycle_status = UNDEFINED
          \/ upstreamEvent[eventId].display_status = "inProgress"
             /\ shape.display_status = "Past"
       /\ upstreamEvent' = [upstreamEvent EXCEPT ![eventId] = shape]
  /\ evicted' = {}
  /\ UNCHANGED <<eventCache, roundStandingsCache, calls,
                 eventKnown, roundKnown, olderEvent, olderRound>>
  /\ UNCHANGED nonCacheVars

CacheNext ==
  \/ \E p \in Procs, e \in EventIds : CallFetchEventDetails(p, e)
  \/ \E p \in Procs, ok \in BOOLEAN : FedResponse(p, ok)
  \/ \E p \in Procs, r \in RoundIds, past \in BOOLEAN : CallFetchAllRoundStandings(p, r, past)
  \/ \E p \in Procs, ok \in BOOLEAN : FarsResponse(p, ok)
  \/ \E p \in GesProcs, e \in EventIds : CallGetEventStandings(p, e)
  \/ \E p \in Procs : GesResumeEvent(p)
  \/ \E p \in Procs : GesResumeRound(p)
  \/ \E p \in Procs : Settle(p)
  \/ clearCaches
  \/ \E e \in EventIds : UpstreamAdvance(e)

(***************************************************************************)
(* lib/http.ts: constants and helpers of fetchWithRetry.                   *)
(***************************************************************************)
DEFAULT_MAX_RETRIES == 1
DEFAULT_RETRY_DELAY_MS == 250
MAX_BACKOFF_DELAY_MS == 5000
MAX_SERVER_RETRY_DELAY_MS == 60000
RETRYABLE_STATUS_CODES == {408, 425, 429, 500, 502, 503, 504}
RETRY_AFTER_STATUS_CODES == {429, 503}
RETRYABLE_ERROR_NAMES == {"AbortError", "TimeoutError"}

\* Largest policy.maxRetries the model tries.
MaxRetriesBound == 2
\* Math.random() is drawn from {0, 1/RandSteps, .., 1}.
RandSteps == 2
\* Date.now() when a Retry-After date is evaluated, in ms.
NowMs == 10000

\* Statuses the upstream answers with.
Statuses == {200, 204, 400, 404, 408, 425, 429, 500, 501, 502, 503, 504}

\* Response.ok
ResponseOk(status) == status >= 200 /\ status <= 299

\* Thrown values, by what isRetryableError inspects.
NetworkError ==
  [isError |-> TRUE, name |-> "TypeError", message |-> "fetch failed", isTypeError |-> TRUE]
\* createTimeoutSignal's abort reason (http.ts:329).
TimeoutReason ==
  [isError |-> TRUE, name |-> "Error", message |-> "Request timed out after 20000ms",
   isTypeError |-> FALSE]
\* The reason of a signal aborted by AbortController.abort().
AbortError ==
  [isError |-> TRUE, name |-> "AbortError", message |-> "This operation was aborted",
   isTypeError |-> FALSE]
\* The reason of an AbortSignal.timeout() signal.
SignalTimeoutError ==
  [isError |-> TRUE, name |-> "TimeoutError",
   message |-> "The operation was aborted due to timeout", isTypeError |-> FALSE]
\* abort(new Error("cancelled"))
CustomError ==
  [isError |-> TRUE, name |-> "Error", message |-> "cancelled", isTypeError |-> FALSE]
\* abort("cancelled"): a reason that is no Error
NonError ==
  [isError |-> FALSE, name |-> "", message |-> "cancelled", isTypeError |-> FALSE]
\* new Error("Request failed after retries.") (http.ts:380)
ExhaustedError ==
  [isError |-> TRUE, name |-> "Error", message |-> "Request failed after retries.",
   isTypeError |-> FALSE]

ExternalReasons == {AbortError, SignalTimeoutError, CustomError, NonError}

\* String.prototype.includes("Request timed out") on the messages above.
IncludesRequestTimedOut(message) == message = "Request timed out after 20000ms"

isRetryableError(error) ==
  IF ~error.isError THEN FALSE
  ELSE IF error.name \in RETRYABLE_ERROR_NAMES THEN TRUE
  ELSE IF IncludesRequestTimedOut(error.message) THEN TRUE
  ELSE error.isTypeError

\* The model's delays are finite, so the isFinite test always passes.
clampDelay(ms, maxMs) == Max(0, Min(ms, maxMs))

(***************************************************************************)
(* Retry-After header values are character lists, so that trim, the        *)
(* numeric pattern and the number conversion act on text.                  *)
(***************************************************************************)
Digits == {"0", "1", "2", "3", "4", "5", "6", "7", "8", "9"}
Whitespace == {" ", "\t"}

DigitValue(ch) ==
  CASE ch = "0" -> 0 [] ch = "1" -> 1 [] ch = "2" -> 2 [] ch = "3" -> 3
    [] ch = "4" -> 4 [] ch = "5" -> 5 [] ch = "6" -> 6 [] ch = "7" -> 7
    [] ch = "8" -> 8 [] OTHER -> 9

RECURSIVE TrimStart(_)
TrimStart(t) ==
  IF t # << >> /\ Head(t) \in Whitespace THEN TrimStart(Tail(t)) ELSE t

RECURSIVE TrimEnd(_)
TrimEnd(t) ==
  IF t # << >> /\ t[Len(t)] \in Whitespace THEN TrimEnd(SubSeq(t, 1, Len(t) - 1)) ELSE t

\* String.prototype.trim
Trim(t) == TrimEnd(TrimStart(t))

AllDigits(t) == t # << >> /\ \A i \in 1..Len(t) : t[i] \in Digits

\* Position of the first "." of t, 0 when there is none.
DotIndex(t) ==
  IF \E i \in 1..Len(t) : t[i] = "."
    THEN CHOOSE i \in 1..Len(t) : t[i] = "." /\ \A j \in 1..(i - 1) : t[j] # "."
    ELSE 0

Unsigned(t) == IF t # << >> /\ Head(t) \in {"+", "-"} THEN Tail(t) ELSE t

\* /^[+-]?\d+(\.\d+)?$/.test(t)
MatchesNumber(t) ==
  LET u == Unsigned(t)
      dot == DotIndex(u)
  IN  IF dot = 0 THEN AllDigits(u)
      ELSE AllDigits(SubSeq(u, 1, dot - 1)) /\ AllDigits(SubSeq(u, dot + 1, Len(u)))

RECURSIVE DigitsValue(_)
DigitsValue(t) ==
  IF t = << >> THEN 0 ELSE DigitsValue(SubSeq(t, 1, Len(t) - 1)) * 10 + DigitValue(t[Len(t)])

RECURSIVE Pow(_, _)
Pow(b, e) == IF e <= 0 THEN 1 ELSE b * Pow(b, e - 1)

\* Math.round of the non-negative fraction num/den: halves go up.
RoundDiv(num, den) == (2 * num + den) \div (2 * den)

\* Number.parseFloat of a text that matches the pattern, as the fraction
\* num/den with its sign kept apart (-0 is not below 0).
ParseFloat(t) ==
  LET u == Unsigned(t)
      dot == DotIndex(u)
      whole == IF dot = 0 THEN u ELSE SubSeq(u, 1, dot - 1)
      frac == IF dot = 0 THEN << >> ELSE SubSeq(u, dot + 1, Len(u))
      den == Pow(10, Len(frac))
      num == DigitsValue(whole) * den + DigitsValue(frac)
  IN  [num |-> num, den |-> den, negative |-> (Head(t) = "-" /\ num > 0)]

\* HTTP dates the upstream may send, each with the ms Date.parse gives.
HttpDate12s ==
  <<"T","h","u",","," ","0","1"," ","J","a","n"," ","1","9","7","0"," ",
    "0","0",":","0","0",":","1","2"," ","G","M","T">>
HttpDate9s ==
  <<"T","h","u",","," ","0","1"," ","J","a","n"," ","1","9","7","0"," ",
    "0","0",":","0","0",":","0","9"," ","G","M","T">>
HttpDate130s ==
  <<"T","h","u",","," ","0","1"," ","J","a","n"," ","1","9","7","0"," ",
    "0","0",":","0","2",":","1","0"," ","G","M","T">>
NotADate == <<"n","o","t","-","a","-","d","a","t","e">>

\* Date.parse: ms since the epoch, Nothing for NaN.
DateParse(t) ==
  CASE t = HttpDate12s -> Some(12000)
    [] t = HttpDate9s -> Some(9000)
    [] t = HttpDate130s -> Some(130000)
    [] OTHER -> Nothing

\* http.ts:272..290; the header is Nothing (null) or Some(text).
parseRetryAfterMs(retryAfter, nowMs) ==
  IF retryAfter = Nothing \/ retryAfter = Some(<< >>) THEN Nothing
  ELSE LET value == Trim(retryAfter[1])
       IN  IF value = << >> THEN Nothing
           ELSE IF MatchesNumber(value)
             THEN LET asSeconds == ParseFloat(value)
                  IN  IF asSeconds.negative THEN Nothing
                      ELSE Some(clampDelay(RoundDiv(asSeconds.num * 1000, asSeconds.den),
                                           MAX_SERVER_RETRY_DELAY_MS))
           ELSE LET asDateMs == DateParse(value)
                IN  IF asDateMs = Nothing THEN Nothing
                    ELSE Some(clampDelay(asDateMs[1] - nowMs, MAX_SERVER_RETRY_DELAY_MS))

\* http.ts:296..307 with random = k / RandSteps.
\* A plausible slip: the cap is applied to the exponential only, not to the
\* jittered product.
getJitteredBackoffDelayMs_capBeforeJitter(attemptNo, baseDelayMs, k) ==
  LET safeBaseDelayMs == clampDelay(baseDelayMs, MAX_BACKOFF_DELAY_MS)
      exponential == Min(safeBaseDelayMs * Pow(2, attemptNo), MAX_BACKOFF_DELAY_MS)
      normalizedK == Max(0, Min(k, RandSteps))
  IN  IF safeBaseDelayMs = 0 THEN 0
      ELSE RoundDiv(exponential * (RandSteps + 2 * normalizedK), 2 * RandSteps)

\* A plausible slip: the first retry already doubles the base delay.
getJitteredBackoffDelayMs_fromOne(attemptNo, baseDelayMs, k) ==
  LET safeBaseDelayMs == clampDelay(baseDelayMs, MAX_BACKOFF_DELAY_MS)
      exponential == Min(safeBaseDelayMs * Pow(2, attemptNo + 1), MAX_BACKOFF_DELAY_MS)
      normalizedK == Max(0, Min(k, RandSteps))
      num == exponential * (RandSteps + 2 * normalizedK)
      den == 2 * RandSteps
  IN  IF safeBaseDelayMs = 0 THEN 0
      ELSE IF num >= MAX_BACKOFF_DELAY_MS * den THEN MAX_BACKOFF_DELAY_MS
      ELSE RoundDiv(num, den)

getJitteredBackoffDelayMs(attemptNo, baseDelayMs, k) ==
  LET safeBaseDelayMs == clampDelay(baseDelayMs, MAX_BACKOFF_DELAY_MS)
      exponential == Min(safeBaseDelayMs * Pow(2, attemptNo), MAX_BACKOFF_DELAY_MS)
      normalizedK == Max(0, Min(k, RandSteps))
      \* exponential * (0.5 + k/RandSteps) = num / den
      num == exponential * (RandSteps + 2 * normalizedK)
      den == 2 * RandSteps
  IN  IF safeBaseDelayMs = 0 THEN 0
      ELSE IF num >= MAX_BACKOFF_DELAY_MS * den THEN MAX_BACKOFF_DELAY_MS
      ELSE RoundDiv(num, den)

\* A plausible slip: the header is honoured on every retryable status.
resolveRetryDelayMs_anyStatus(response, attemptNo, baseDelayMs, k) ==
  LET retryAfterMs == parseRetryAfterMs(response.retryAfter, NowMs)
  IN  IF retryAfterMs # Nothing THEN retryAfterMs[1]
      ELSE getJitteredBackoffDelayMs(attemptNo, baseDelayMs, k)

\* http.ts:309..315
resolveRetryDelayMs(response, attemptNo, baseDelayMs, k) ==
  LET retryAfterMs == IF response.status \in RETRY_AFTER_STATUS_CODES
                        THEN parseRetryAfterMs(response.retryAfter, NowMs)
                        ELSE Nothing
  IN  IF retryAfterMs # Nothing THEN retryAfterMs[1]
      ELSE getJitteredBackoffDelayMs(attemptNo, baseDelayMs, k)

(***************************************************************************)
(* fetchWithRetry, attempt by attempt.  rpc:                               *)
(*   init      not called yet                                              *)
(*   fetching  awaiting fetch(url, {signal})            (http.ts:355)      *)
(*   draining  awaiting response.arrayBuffer()          (http.ts:366)      *)
(*   sleeping  awaiting sleep(delay)                    (http.ts:367, 374) *)
(*   returned / thrown   settled                                           *)
(***************************************************************************)
\* Retry-After values the upstream sends.  text is the header; means and
\* ms/at say what the sender meant by it (seconds as ms, a date as epoch ms).
RetryAfterHeaders ==
  { [text |-> Nothing,                 means |-> "absent",    ms |-> 0,      at |-> 0],
    [text |-> Some(<< >>),             means |-> "empty",     ms |-> 0,      at |-> 0],
    [text |-> Some(<<" ">>),           means |-> "empty",     ms |-> 0,      at |-> 0],
    [text |-> Some(<<"0">>),           means |-> "seconds",   ms |-> 0,      at |-> 0],
    [text |-> Some(<<"5">>),           means |-> "seconds",   ms |-> 5000,   at |-> 0],
    [text |-> Some(<<"+","3">>),       means |-> "seconds",   ms |-> 3000,   at |-> 0],
    [text |-> Some(<<" ","7"," ">>),   means |-> "seconds",   ms |-> 7000,   at |-> 0],
    [text |-> Some(<<"1",".","5">>),   means |-> "seconds",   ms |-> 1500,   at |-> 0],
    [text |-> Some(<<"1","2","0">>),   means |-> "seconds",   ms |-> 120000, at |-> 0],
    [text |-> Some(<<"-","5">>),       means |-> "negative",  ms |-> 0,      at |-> 0],
    [text |-> Some(NotADate),          means |-> "malformed", ms |-> 0,      at |-> 0],
    [text |-> Some(HttpDate12s),       means |-> "date",      ms |-> 0,      at |-> 12000],
    [text |-> Some(HttpDate9s),        means |-> "date",      ms |-> 0,      at |-> 9000],
    [text |-> Some(HttpDate130s),      means |-> "date",      ms |-> 0,      at |-> 130000] }

HeaderAbsent == [text |-> Nothing, means |-> "absent", ms |-> 0, at |-> 0]

\* Statuses on which the model lets the upstream vary the header.
HeaderStatuses == {429, 500, 503}

Policies ==
  [maxRetries : {Nothing} \cup {Some(n) : n \in -1..MaxRetriesBound},
   retryDelayMs : {Nothing, Some(0), Some(100)},
   hasSignal : BOOLEAN]

\* A plausible slip: || instead of ??, so that 0 falls back to the default.
MaxRetriesOf_falsyZero(pol) ==
  IF pol.maxRetries = Nothing \/ pol.maxRetries = Some(0)
    THEN DEFAULT_MAX_RETRIES ELSE pol.maxRetries[1]

\* http.ts:348..349: policy.x ?? DEFAULT_X
MaxRetriesOf(pol) ==
  IF pol.maxRetries = Nothing THEN DEFAULT_MAX_RETRIES ELSE pol.maxRetries[1]
RetryDelayOf(pol) ==
  IF pol.retryDelayMs = Nothing THEN DEFAULT_RETRY_DELAY_MS ELSE pol.retryDelayMs[1]

NoOutcome ==
  [kind |-> "none", status |-> 0, header |-> HeaderAbsent, error |-> NonError]

\* http.ts:352: the for loop's test.
LoopContinues(attemptNo, maxRetries) == attemptNo <= maxRetries

\* A plausible slip: the attempt number is not consulted, so a retryable
\* status on the last attempt sleeps and then leaves the loop.
ResponseVerdict_anyAttempt(attemptNo, maxRetries, status) ==
  IF ResponseOk(status) THEN "return"
  ELSE IF ~(status \in RETRYABLE_STATUS_CODES) THEN "return"
  ELSE "retry"

\* http.ts:356..363: what a response leads to.
ResponseVerdict(attemptNo, maxRetries, status) ==
  IF ResponseOk(status) THEN "return"
  ELSE IF ~(attemptNo < maxRetries /\ status \in RETRYABLE_STATUS_CODES) THEN "return"
  ELSE "retry"

\* http.ts:370..373: what a thrown value leads to.
ErrorVerdict(attemptNo, maxRetries, error) ==
  IF ~(attemptNo < maxRetries /\ isRetryableError(error)) THEN "throw" ELSE "retry"

RetryInit ==
  /\ rpc = "init"
  /\ policy = [maxRetries |-> Nothing, retryDelayMs |-> Nothing, hasSignal |-> FALSE]
  /\ attempt = 0
  /\ ctrl = Nothing
  /\ extAborted = Nothing
  /\ last = NoOutcome
  /\ delay = Nothing
  /\ result = Nothing
  /\ fetchCalls = 0
  /\ firstOk = FALSE
  /\ callsAfterAbort = 0
  /\ rand = Nothing

\* http.ts:353..355: createTimeoutSignal chains init.signal (an aborted one
\* aborts the new controller at once), then fetch is called.
BeginAttempt(attemptNo) ==
  /\ attempt' = attemptNo
  /\ rpc' = "fetching"
  /\ ctrl' = extAborted
  /\ fetchCalls' = fetchCalls + 1
  /\ callsAfterAbort' = callsAfterAbort + (IF extAborted # Nothing THEN 1 ELSE 0)

\* http.ts:380: the loop ended without returning or throwing.
FallThrough ==
  /\ rpc' = "thrown"
  /\ result' = Some([kind |-> "error",
                     error |-> IF last.kind = "error" /\ last.error.isError
                                 THEN last.error ELSE ExhaustedError])
  /\ UNCHANGED <<attempt, ctrl, fetchCalls, callsAfterAbort>>

\* The loop test before attempt attemptNo.
EnterLoop(attemptNo) ==
  IF LoopContinues(attemptNo, MaxRetriesOf(policy'))
    THEN BeginAttempt(attemptNo) /\ UNCHANGED result
    ELSE FallThrough

\* fetchWithRetry(url, init, policy) is called.
RetryStart(pol) ==
  /\ rpc = "init"
  /\ policy' = pol
  /\ EnterLoop(0)
  /\ UNCHANGED <<extAborted, last, delay, firstOk, rand, nonRetryVars>>

\* fetch resolves with a response.
FetchResponds(status, header) ==
  /\ rpc = "fetching"
  /\ ctrl = Nothing
  /\ status \notin HeaderStatuses => header = HeaderAbsent
  /\ last' = [kind |-> "response", status |-> status, header |-> header, error |-> last.error]
  /\ firstOk' = IF attempt = 0 THEN ResponseOk(status) ELSE firstOk
  /\ LET verdict == ResponseVerdict(attempt, MaxRetriesOf(policy), status)
         response == [kind |-> "response", status |-> status, header |-> header]
     IN  \/ /\ verdict = "return"
            /\ rpc' = "returned"
            /\ result' = Some(response)
         \/ /\ verdict = "retry"
            /\ rpc' = "draining"
            /\ result' = result
  /\ UNCHANGED <<policy, attempt, ctrl, extAborted, delay, fetchCalls,
                 callsAfterAbort, rand, nonRetryVars>>

\* fetch rejects: with the controller's abort reason when it was aborted,
\* with a network failure otherwise.  The catch block decides at once; the
\* backoff it sleeps for draws k / RandSteps from Math.random().
FetchRejects(k) ==
  /\ rpc = "fetching"
  /\ LET error == IF ctrl # Nothing THEN ctrl[1] ELSE NetworkError
         verdict == ErrorVerdict(attempt, MaxRetriesOf(policy), error)
     IN  /\ last' = [kind |-> "error", status |-> 0, header |-> HeaderAbsent, error |-> error]
         /\ firstOk' = IF attempt = 0 THEN FALSE ELSE firstOk
         /\ \/ /\ verdict = "throw"
               /\ k = 0
               /\ rpc' = "thrown"
               /\ result' = Some([kind |-> "error", error |-> error])
               /\ UNCHANGED <<delay, rand>>
            \/ /\ verdict = "retry"
               /\ rpc' = "sleeping"
               /\ delay' = Some(getJitteredBackoffDelayMs(attempt, RetryDelayOf(policy), k))
               /\ rand' = Some(k)
               /\ result' = result
  /\ UNCHANGED <<policy, attempt, ctrl, extAborted, fetchCalls, callsAfterAbort, nonRetryVars>>

\* The body of the retryable response is drained; the wait is chosen.
DrainDone(k) ==
  /\ rpc = "draining"
  /\ rpc' = "sleeping"
  /\ delay' = Some(resolveRetryDelayMs([status |-> last.status, retryAfter |-> last.header.text],
                                       attempt, RetryDelayOf(policy), k))
  /\ rand' = Some(k)
  /\ UNCHANGED <<policy, attempt, ctrl, extAborted, last, result, fetchCalls, firstOk,
                 callsAfterAbort, nonRetryVars>>

\* The sleep ends, cleanup runs, the loop goes on with attempt + 1.
SleepDone ==
  /\ rpc = "sleeping"
  /\ policy' = policy
  /\ EnterLoop(attempt + 1)
  /\ UNCHANGED <<extAborted, last, delay, firstOk, rand, nonRetryVars>>

\* The attempt's timer fires (http.ts:329) while fetch is pending.
TimerFires ==
  /\ rpc = "fetching"
  /\ ctrl = Nothing
  /\ ctrl' = Some(TimeoutReason)
  /\ UNCHANGED <<rpc, policy, attempt, extAborted, last, delay, result, fetchCalls,
                 firstOk, callsAfterAbort, rand, nonRetryVars>>

\* init.signal is aborted while the call is running; the listener of
\* createTimeoutSignal aborts the attempt's controller with the same reason.
ExternalAbort(reason) ==
  /\ policy.hasSignal
  /\ extAborted = Nothing
  /\ rpc \in {"fetching", "draining", "sleeping"}
  /\ extAborted' = Some(reason)
  /\ ctrl' = IF ctrl = Nothing THEN Some(reason) ELSE ctrl
  /\ UNCHANGED <<rpc, policy, attempt, last, delay, result, fetchCalls,
                 firstOk, callsAfterAbort, rand, nonRetryVars>>

RetryNext ==
  \/ \E pol \in Policies : RetryStart(pol)
  \/ \E status \in Statuses, header \in RetryAfterHeaders : FetchResponds(status, header)
  \/ \E k \in 0..RandSteps : FetchRejects(k)
  \/ \E k \in 0..RandSteps : DrainDone(k)
  \/ SleepDone
  \/ TimerFires
  \/ \E reason \in ExternalReasons : ExternalAbort(reason)

(***************************************************************************)
(* SpecResolve: one fetchAllEventStandings call.  Each position of ids has *)
(* its own getEventStandings frame, which exists from the call to the      *)
(* moment fetchAllEventStandings has taken its result; the upstream        *)
(* answers every request with a failure or with any event status and any   *)
(* page.                                                                   *)
(* SpecPages: fetchAllRoundStandings called directly, again and again,     *)
(* against an upstream that sends any page length with any next-page       *)
(* signal.                                                                 *)
(***************************************************************************)
\* Longest id list tried.
MaxIds == 2

Slots == 1..MaxIds

\* Event 1 has two phases, event 2 no phase, event 4 lists its rounds out
\* of order, event 5 has a phase without rounds.
ResolveEventIds == {1, 2, 4, 5}

IdLists == UNION {[1..n -> ResolveEventIds] : n \in 0..MaxIds}

\* The statuses the events are returned in: still running, or finished.
ResolveShapes ==
  { [display_status |-> "inProgress", event_lifecycle_status |-> UNDEFINED],
    [display_status |-> "Past",       event_lifecycle_status |-> UNDEFINED] }

\* The pages the upstream sends in SpecResolve, as <<length, next page?>>:
\* an empty last page, a full last page, a full page with more to come.
ResolvePages ==
  { <<0, FALSE>>, <<STANDINGS_PAGE_SIZE, FALSE>>, <<STANDINGS_PAGE_SIZE, TRUE>> }

IdleFaes == [pc |-> "idle", ids |-> << >>, i |-> 0, results |-> << >>]

\* History of one frame: the rounds it entered and what each gave, the page
\* requests of the round in progress, the latest page, whether the event
\* request failed; and, once the frame is gone, how it ended.
IdleHist ==
  [tried |-> << >>, outcome |-> << >>, pages |-> 0,
   lastLen |-> 0, lastNext |-> FALSE, eventFailed |-> FALSE,
   final |-> "none", value |-> Nothing]

\* A plausible slip: the resolutions are started together (Promise.all) and
\* their results collected in order.
FaesLaunch_allAtOnce(n, i) == IF i = 1 THEN 1..n ELSE {}

\* api.ts:445..447: iteration i of the loop calls getEventStandings for
\* position i and awaits it before anything else is started.
FaesLaunch(n, i) == IF i <= n THEN {i} ELSE {}

\* A plausible slip: no try/catch around the awaited call.
FaesCollect_noCatch(f, frame) ==
  IF frame.pc = "threw" THEN [f EXCEPT !.pc = "threw"]
  ELSE IF frame.result # Nothing
    THEN [f EXCEPT !.results = Append(f.results, frame.result[1])]
    ELSE f

\* api.ts:446..451: a non-null result is pushed, a null one and a failure
\* are skipped.
FaesCollect(f, frame) ==
  IF frame.pc = "returned" /\ frame.result # Nothing
    THEN [f EXCEPT !.results = Append(f.results, frame.result[1])]
    ELSE f

\* api.ts:445, 453: the next iteration, or the return after the last one.
FaesNext(f) ==
  IF f.pc = "threw" THEN f
  ELSE IF f.i + 1 > Len(f.ids) THEN [f EXCEPT !.i = f.i + 1, !.pc = "returned"]
  ELSE [f EXCEPT !.i = f.i + 1]

\* getEventStandings(ids[j]) is called for every j of js: each runs up to
\* its first await (api.ts:404..405).
Launched(frames, js, ids) ==
  [j \in Slots |->
     IF j \in js
       THEN FedEnter([IdleCall EXCEPT !.top = "getEventStandings"], ids[j], eventCache)
       ELSE frames[j]]

\* api.ts:389..391, then the loop test.
FarsAfterPage(c, response) ==
  LET hasMore == /\ response.next_page_number # Nothing
                 /\ Len(response.results) = STANDINGS_PAGE_SIZE
  IN  FarsLoop([c EXCEPT !.all = c.all \o response.results, !.page = c.page + 1],
               hasMore)

\* History of a frame after a step that may have entered
\* fetchAllRoundStandings for a round.
HistAfterEnter(h, c1) ==
  IF c1.pc \in {"fars_await", "ges_round"}
    THEN [h EXCEPT !.tried = Append(h.tried, c1.roundId),
                   !.pages = IF c1.pc = "fars_await" THEN 1 ELSE 0]
    ELSE h

\* History of a frame that is gone.
HistDone(c) ==
  [IdleHist EXCEPT !.final = IF c.pc = "threw" THEN "threw"
                             ELSE IF c.result = Nothing THEN "null" ELSE "data",
                   !.value = c.result]

ResolveInit ==
  /\ faes = IdleFaes
  /\ res = [j \in Slots |-> IdleCall]
  /\ hist = [j \in Slots |-> IdleHist]
  /\ writer = 0
  /\ lb = Nothing

\* fetchAllEventStandings(ids) is called.
FaesCall(ids) ==
  /\ faes.pc = "idle"
  /\ \A j \in Slots : res[j].pc = "idle"
  /\ faes' = [IdleFaes EXCEPT !.ids = ids, !.i = 1,
                              !.pc = IF ids = << >> THEN "returned" ELSE "await"]
  /\ res' = Launched(res, FaesLaunch(Len(ids), 1), ids)
  /\ UNCHANGED <<hist, writer, lb, eventCache, roundStandingsCache, nonResolveVars>>

\* The event request of frame j settles: a 2xx response with the event in
\* some status, or a failure.
RFedResponse(j, ok, shape) ==
  /\ res[j].pc = "fed_await"
  /\ LET c == res[j]
         event == MakeEvent(c.eventId, shape)
         newE == IF ok THEN FedStore(eventCache, c.eventId, event) ELSE eventCache
     IN  /\ eventCache' = newE
         /\ res' = [res EXCEPT ![j] = IF ok THEN FedReturn(c, event) ELSE FedThrow(c)]
         /\ hist' = [hist EXCEPT ![j].eventFailed = ~ok]
         /\ writer' = IF newE # eventCache THEN j ELSE writer
  /\ UNCHANGED <<faes, lb, roundStandingsCache, nonResolveVars>>

\* getEventStandings of frame j resumes with the event.
RGesResumeEvent(j) ==
  /\ res[j].pc = "ges_event"
  /\ LET c1 == GesAfterEvent(res[j], roundStandingsCache)
     IN  /\ res' = [res EXCEPT ![j] = c1]
         /\ hist' = [hist EXCEPT ![j] = HistAfterEnter(hist[j], c1)]
  /\ UNCHANGED <<faes, writer, lb, eventCache, roundStandingsCache, nonResolveVars>>

\* A page request of frame j settles: a failure, or a page of len entries
\* with or without a next page number.
RPageResponse(j, ok, len, next) ==
  /\ res[j].pc = "fars_await"
  /\ LET c == res[j]
         response == [results |-> [k \in 1..len |-> <<c.roundId, Len(c.all) + k>>],
                      next_page_number |-> IF next THEN Some(c.page + 1) ELSE Nothing]
         c2 == IF ok THEN FarsAfterPage(c, response) ELSE FarsThrow(c)
         newR == IF ok /\ c2.pc # "fars_await"
                   THEN FarsStore(c2, roundStandingsCache)
                   ELSE roundStandingsCache
     IN  /\ roundStandingsCache' = newR
         /\ res' = [res EXCEPT ![j] = c2]
         /\ hist' = [hist EXCEPT ![j].pages = IF c2.pc = "fars_await" THEN @ + 1 ELSE @,
                                 ![j].lastLen = len,
                                 ![j].lastNext = next]
         /\ writer' = IF newR # roundStandingsCache THEN j ELSE writer
  /\ UNCHANGED <<faes, lb, eventCache, nonResolveVars>>

\* getEventStandings of frame j resumes with a round's list or its failure.
RGesResumeRound(j) ==
  /\ res[j].pc = "ges_round"
  /\ LET c == res[j]
         c1 == GesAfterRound(c, roundStandingsCache)
         h1 == [hist[j] EXCEPT !.outcome =
                  Append(@, IF c.failed THEN "failed"
                            ELSE IF Len(c.all) = 0 THEN "empty" ELSE "data")]
     IN  /\ res' = [res EXCEPT ![j] = c1]
         /\ hist' = [hist EXCEPT ![j] = HistAfterEnter(h1, c1)]
  /\ UNCHANGED <<faes, writer, lb, eventCache, roundStandingsCache, nonResolveVars>>

\* fetchAllEventStandings resumes: the awaited getEventStandings settled.
FaesResume ==
  /\ faes.pc = "await"
  /\ res[faes.i].pc \in {"returned", "threw"}
  /\ LET f1 == FaesNext(FaesCollect(faes, res[faes.i]))
         gone == [res EXCEPT ![faes.i] = IdleCall]
     IN  /\ faes' = f1
         /\ res' = IF f1.pc = "await"
                     THEN Launched(gone, FaesLaunch(Len(f1.ids), f1.i), f1.ids)
                     ELSE gone
         /\ hist' = [hist EXCEPT ![faes.i] = HistDone(res[faes.i])]
  /\ UNCHANGED <<writer, lb, eventCache, roundStandingsCache, nonResolveVars>>

\* events.ts:966..974: eventsAnalyzed and eventsIncluded of the result.
LeaderboardResult ==
  /\ faes.pc = "returned"
  /\ lb = Nothing
  /\ lb' = Some([eventsAnalyzed |-> Len(faes.results),
                 eventsIncluded |-> [k \in 1..Len(faes.results) |->
                                       faes.results[k].event.id]])
  /\ UNCHANGED <<faes, res, hist, writer, eventCache, roundStandingsCache, nonResolveVars>>

ResolveNext ==
  \/ \E ids \in IdLists : FaesCall(ids)
  \/ \E j \in Slots, ok \in BOOLEAN, shape \in ResolveShapes : RFedResponse(j, ok, shape)
  \/ \E j \in Slots : RGesResumeEvent(j)
  \/ \E j \in Slots, ok \in BOOLEAN, pg \in ResolvePages : RPageResponse(j, ok, pg[1], pg[2])
  \/ \E j \in Slots : RGesResumeRound(j)
  \/ FaesResume
  \/ LeaderboardResult

\* A caller invokes fetchAllRoundStandings(roundId, isPastEvent).
PagesCall(roundId, isPastEvent) ==
  /\ faes.pc = "idle"
  /\ res[1].pc = "idle"
  /\ LET c1 == FarsEnter([IdleCall EXCEPT !.top = "fetchAllRoundStandings"],
                         roundId, isPastEvent, roundStandingsCache)
     IN  /\ res' = [res EXCEPT ![1] = c1]
         /\ hist' = [hist EXCEPT ![1] = HistAfterEnter(IdleHist, c1)]
  /\ UNCHANGED <<faes, writer, lb, eventCache, roundStandingsCache, nonResolveVars>>

\* The caller takes the result.
PagesSettle ==
  /\ faes.pc = "idle"
  /\ res[1].pc \in {"returned", "threw"}
  /\ res' = [res EXCEPT ![1] = IdleCall]
  /\ hist' = [hist EXCEPT ![1] = IdleHist]
  /\ writer' = 0
  /\ UNCHANGED <<faes, lb, eventCache, roundStandingsCache, nonResolveVars>>

PagesNext ==
  \/ \E r \in RoundIds, past \in BOOLEAN : PagesCall(r, past)
  \/ \E ok \in BOOLEAN, len \in 0..STANDINGS_PAGE_SIZE, next \in BOOLEAN :
       RPageResponse(1, ok, len, next)
  \/ PagesSettle

(***************************************************************************)
(* parseRecordToWinsLosses (lib/formatters.ts).  Strings are lists of      *)
(* characters; a value that may be undefined or null is Undef, Null or     *)
(* Val(v).                                                                 *)
(***************************************************************************)
Undef == <<"undefined">>
Null == <<"null">>
Val(v) == <<"value", v>>

\* typeof v === "string", for the values a record field takes.
IsValue(v) == Len(v) = 2

\* a ?? b
Coalesce(a, b) == IF IsValue(a) THEN a ELSE b

\* String.prototype.split("-"): the pieces between the dashes.
RECURSIVE SplitDash(_, _)
SplitDash(t, piece) ==
  IF t = << >> THEN <<piece>>
  ELSE IF Head(t) = "-" THEN <<piece>> \o SplitDash(Tail(t), << >>)
  ELSE SplitDash(Tail(t), Append(piece, Head(t)))

\* The longest prefix of t made of digits.
RECURSIVE DigitPrefix(_)
DigitPrefix(t) ==
  IF t # << >> /\ Head(t) \in Digits
    THEN <<Head(t)>> \o DigitPrefix(Tail(t))
    ELSE << >>

\* parseInt(t, 10): leading white space skipped, an optional sign, then the
\* digits up to the first other character; NaN (Nothing) without a digit.
ParseInt(t) ==
  LET body == TrimStart(t)
      signed == body # << >> /\ Head(body) \in {"+", "-"}
      digits == DigitPrefix(IF signed THEN Tail(body) ELSE body)
  IN  IF digits = << >> THEN Nothing
      ELSE IF signed /\ Head(body) = "-" THEN Some(0 - DigitsValue(digits))
      ELSE Some(DigitsValue(digits))

\* A plausible slip: only W-L is accepted.
parseRecordToWinsLosses_exactlyTwo(record) ==
  IF ~IsValue(record) \/ Trim(record[2]) = << >>
    THEN [wins |-> 0, losses |-> 0]
    ELSE LET pieces == SplitDash(record[2], << >>)
             parts == [i \in 1..Len(pieces) |-> ParseInt(Trim(pieces[i]))]
         IN  IF Len(parts) = 2 /\ parts[1] # Nothing /\ parts[2] # Nothing
               THEN [wins |-> parts[1][1], losses |-> parts[2][1]]
               ELSE [wins |-> 0, losses |-> 0]

\* formatters.ts:227..235
parseRecordToWinsLosses(record) ==
  IF ~IsValue(record) \/ Trim(record[2]) = << >>
    THEN [wins |-> 0, losses |-> 0]
    ELSE LET pieces == SplitDash(record[2], << >>)
             parts == [i \in 1..Len(pieces) |-> ParseInt(Trim(pieces[i]))]
         IN  IF Len(parts) >= 2 /\ parts[1] # Nothing /\ parts[2] # Nothing
               THEN [wins |-> parts[1][1], losses |-> parts[2][1]]
               ELSE [wins |-> 0, losses |-> 0]

(***************************************************************************)
(* The aggregation loop of get_player_leaderboard (tools/events.ts).       *)
(***************************************************************************)
\* The one-character string U+2014 the helpers return when an entry has no
\* name.
EmDash == "(em dash)"

\* `player_id:${id}`
PlayerIdKey(id) ==
  CASE id = 42 -> "player_id:42"
    [] id = 7 -> "player_id:7"
    [] OTHER -> "player_id:0"

\* entry.player?.x and entry.user_event_status?.best_identifier
PlayerField(entry, field) ==
  IF entry.player = Nothing THEN Undef ELSE entry.player[1][field]

UserEventStatusName(entry) ==
  IF entry.user_event_status = Nothing THEN Undef
  ELSE entry.user_event_status[1].best_identifier

\* A plausible slip: the name is preferred to the id.
standingPlayerKey_nameFirst(entry) ==
  LET name == Coalesce(PlayerField(entry, "best_identifier"),
                Coalesce(entry.player_name,
                  Coalesce(entry.display_name, entry.username)))
  IN  IF IsValue(name) THEN name[2]
      ELSE IF IsValue(PlayerField(entry, "id"))
        THEN PlayerIdKey(PlayerField(entry, "id")[2])
        ELSE EmDash

\* events.ts:706..719
standingPlayerKey(entry) ==
  IF IsValue(PlayerField(entry, "id"))
    THEN PlayerIdKey(PlayerField(entry, "id")[2])
    ELSE Coalesce(PlayerField(entry, "best_identifier"),
           Coalesce(entry.player_name,
             Coalesce(entry.display_name,
               Coalesce(entry.username, Val(EmDash)))))[2]

\* events.ts:725..734
standingPlayerDisplayName(entry) ==
  Coalesce(UserEventStatusName(entry),
    Coalesce(PlayerField(entry, "best_identifier"),
      Coalesce(entry.player_name,
        Coalesce(entry.display_name,
          Coalesce(entry.username, Val(EmDash))))))[2]

\* events.ts:736..738
standingPlacement(entry, index) ==
  Coalesce(entry.rank, Coalesce(entry.placement, Val(index + 1)))[2]

\* events.ts:741..746
standingWinsLosses(entry) ==
  IF IsValue(entry.wins) /\ IsValue(entry.losses)
    THEN [wins |-> entry.wins[2], losses |-> entry.losses[2]]
    ELSE parseRecordToWinsLosses(Coalesce(entry.record, entry.match_record))

\* A plausible slip: the totals are assigned, not accumulated.
Accumulate_assign(rec, score, placement) ==
  [rec EXCEPT !.wins = score.wins,
              !.losses = score.losses,
              !.eventsPlayed = @ + 1,
              !.placements = Append(@, placement)]

\* events.ts:924..927
Accumulate(rec, score, placement) ==
  [rec EXCEPT !.wins = @ + score.wins,
              !.losses = @ + score.losses,
              !.eventsPlayed = @ + 1,
              !.placements = Append(@, placement)]

\* events.ts:899..928: one iteration of the inner loop.
AggregateEntry(map, entry, index) ==
  LET key == standingPlayerKey(entry)
      displayName == standingPlayerDisplayName(entry)
      hasUserEventStatus == UserEventStatusName(entry) # Undef
      placement == standingPlacement(entry, index)
      score == standingWinsLosses(entry)
      found == MapGet(map, key)
      rec == IF found = Nothing
               THEN [displayName |-> displayName,
                     hasUserEventStatus |-> hasUserEventStatus,
                     wins |-> 0, losses |-> 0, eventsPlayed |-> 0,
                     placements |-> << >>]
             ELSE IF hasUserEventStatus /\ ~found[1].hasUserEventStatus
               THEN [found[1] EXCEPT !.displayName = displayName,
                                     !.hasUserEventStatus = TRUE]
             ELSE found[1]
  IN  IF key = EmDash THEN map
      ELSE MapSet(map, key, Accumulate(rec, score, placement))

\* Longest input: standing entries over all events.
MaxEntries == 3

\* A standing entry without any field.
NoFields ==
  [player |-> Nothing, player_name |-> Undef, display_name |-> Undef,
   username |-> Undef, user_event_status |-> Nothing,
   wins |-> Undef, losses |-> Undef, record |-> Undef, match_record |-> Undef,
   rank |-> Undef, placement |-> Undef]

Player(id, name) == Some([id |-> id, best_identifier |-> name])
UserEventStatus(name) == Some([best_identifier |-> name])

Record30 == Val(<<"3", "-", "0">>)
Record21 == Val(<<"2", "-", "1">>)
Record301 == Val(<<"3", "-", "0", "-", "1">>)

\* The standing entries the upstream sends: player 42 under two names, with
\* and without a per-event name; a player known by name only, the name in
\* different fields; entries without any identifier; numeric wins and
\* losses or a record text; player 7 without name and without games.
Entries ==
  { [NoFields EXCEPT !.player = Player(Val(42), Val("Ann A")),
                     !.record = Record30, !.rank = Val(1)],
    [NoFields EXCEPT !.player = Player(Val(42), Val("Ann A")),
                     !.record = Record21, !.rank = Val(2)],
    [NoFields EXCEPT !.player = Player(Val(42), Val("Annie")),
                     !.user_event_status = UserEventStatus(Val("AnnTheGreat")),
                     !.wins = Val(2), !.losses = Val(1)],
    [NoFields EXCEPT !.player = Player(Val(42), Val("Ann A")),
                     !.user_event_status = UserEventStatus(Null),
                     !.record = Record30],
    [NoFields EXCEPT !.player = Player(Val(42), Val("Ann A")),
                     !.user_event_status = UserEventStatus(Val("Star")),
                     !.wins = Null, !.losses = Null,
                     !.match_record = Record301, !.placement = Val(3)],
    [NoFields EXCEPT !.player = Player(Null, Val("Bob B")),
                     !.record = Record21],
    [NoFields EXCEPT !.player_name = Val("Bob B"),
                     !.user_event_status = UserEventStatus(Val("Bobby")),
                     !.wins = Val(3), !.losses = Val(0)],
    [NoFields EXCEPT !.player = Player(Undef, Null),
                     !.display_name = Val("Cy"),
                     !.user_event_status = UserEventStatus(Undef),
                     !.record = Record30],
    [NoFields EXCEPT !.username = Val("Cy"), !.record = Record21],
    [NoFields EXCEPT !.user_event_status = UserEventStatus(Val("Ghost")),
                     !.record = Record30],
    [NoFields EXCEPT !.record = Record21],
    [NoFields EXCEPT !.player = Player(Val(7), Undef)] }

\* What fetchAllEventStandings returned for the entries list: no event when
\* it is empty, one event with all of them, or two events, the second
\* starting after the first `cut` entries.
AsEventStandings(list, cut) ==
  IF list = << >> THEN << >>
  ELSE IF cut = 0 THEN <<list>>
  ELSE <<SubSeq(list, 1, cut), SubSeq(list, cut + 1, Len(list))>>

\* No pure function is under test.
PureInit == fnIn = Nothing /\ fnOut = Nothing

\* get_player_leaderboard is not running.
LeaderIdle ==
  /\ eventStandings = << >>
  /\ pos = [e |-> 1, i |-> 0]
  /\ agg = << >>
  /\ board = Nothing

LeaderInit ==
  /\ CacheInit /\ RetryInit /\ PureInit /\ ResolveInit
  /\ \E n \in 0..MaxEntries :
       \E list \in [1..n -> Entries], cut \in 0..MaxEntries :
         /\ cut < n \/ cut = 0
         /\ eventStandings = AsEventStandings(list, cut)
  /\ pos = [e |-> 1, i |-> 0]
  /\ agg = << >>
  /\ board = Nothing

\* events.ts:898..929: the body of the inner loop for the entry at pos.
AggregateNext ==
  /\ pos.e <= Len(eventStandings)
  /\ LET standings == eventStandings[pos.e]
     IN  /\ agg' = AggregateEntry(agg, standings[pos.i + 1], pos.i)
         /\ pos' = IF pos.i + 1 < Len(standings)
                     THEN [pos EXCEPT !.i = @ + 1]
                     ELSE [e |-> pos.e + 1, i |-> 0]
  /\ UNCHANGED <<eventStandings, board, nonLeaderVars>>

\* events.ts:698, scaled: MAX_LEADERBOARD_LIMIT = 100.
MAX_LEADERBOARD_LIMIT == 2

SORT_OPTIONS == {"total_wins", "events_played", "win_rate", "best_placement"}

\* The min_events arguments tried (the schema admits numbers from 1).
MinEventsArgs == {1, 2}

\* Math.min(...placements)
RECURSIVE MinOf(_)
MinOf(list) ==
  IF Len(list) = 1 THEN list[1] ELSE Min(Head(list), MinOf(Tail(list)))

\* events.ts:933..941: the PlayerStats of one aggregate.  `key` is history:
\* the map key of the aggregate, which PlayerStats does not carry.
PlayerStats(e) ==
  [key |-> e.key,
   playerName |-> e.value.displayName,
   totalWins |-> e.value.wins,
   totalLosses |-> e.value.losses,
   eventsPlayed |-> e.value.eventsPlayed,
   bestPlacement |-> MinOf(e.value.placements),
   firstPlaceFinishes |-> Len(SelectSeq(e.value.placements, LAMBDA pl : pl = 1)),
   placements |-> e.value.placements]

\* The sign of rateB - rateA of events.ts:949..953, rates compared as
\* fractions: wins / (wins + losses), 0 without games.
RateNum(a) == IF a.totalWins + a.totalLosses > 0 THEN a.totalWins ELSE 0
RateDen(a) == IF a.totalWins + a.totalLosses > 0 THEN a.totalWins + a.totalLosses ELSE 1

\* A plausible slip: a player without games has rate 1.
PlayerBefore_noGamesFirst(a, b, sortBy) ==
  CASE sortBy = "total_wins" -> b.totalWins - a.totalWins < 0
    [] sortBy = "events_played" -> b.eventsPlayed - a.eventsPlayed < 0
    [] sortBy = "win_rate" ->
         LET numA == IF a.totalWins + a.totalLosses > 0 THEN a.totalWins ELSE 1
             numB == IF b.totalWins + b.totalLosses > 0 THEN b.totalWins ELSE 1
         IN  numB * RateDen(a) - numA * RateDen(b) < 0
    [] OTHER -> a.bestPlacement - b.bestPlacement < 0

\* events.ts:944..956: the comparator of the selected order is negative.
PlayerBefore(a, b, sortBy) ==
  CASE sortBy = "total_wins" -> b.totalWins - a.totalWins < 0
    [] sortBy = "events_played" -> b.eventsPlayed - a.eventsPlayed < 0
    [] sortBy = "win_rate" ->
         RateNum(b) * RateDen(a) - RateNum(a) * RateDen(b) < 0
    [] OTHER -> a.bestPlacement - b.bestPlacement < 0

\* Array.prototype.sort (stable): each element is inserted before the first
\* one it precedes.
RECURSIVE InsertPlayer(_, _, _)
InsertPlayer(sorted, r, sortBy) ==
  IF sorted = << >> THEN <<r>>
  ELSE IF PlayerBefore(r, Head(sorted), sortBy) THEN <<r>> \o sorted
  ELSE <<Head(sorted)>> \o InsertPlayer(Tail(sorted), r, sortBy)

RECURSIVE SortPlayers(_, _)
SortPlayers(list, sortBy) ==
  IF list = << >> THEN << >>
  ELSE InsertPlayer(SortPlayers(SubSeq(list, 1, Len(list) - 1), sortBy),
                    list[Len(list)], sortBy)

\* A plausible slip: the list is cut to limit before the threshold is
\* applied.
BuildPlayers_cutFirst(map, minEvents, sortBy, limit) ==
  LET all == [k \in 1..Len(map) |-> PlayerStats(map[k])]
      sorted == SortPlayers(all, sortBy)
      cut == SubSeq(sorted, 1, Min(limit, Len(sorted)))
  IN  SelectSeq(cut, LAMBDA r : r.eventsPlayed >= minEvents)

\* events.ts:931..957: filter, map, sort, slice.
BuildPlayers(map, minEvents, sortBy, limit) ==
  LET kept == SelectSeq(map, LAMBDA e : e.value.eventsPlayed >= minEvents)
      players == [k \in 1..Len(kept) |-> PlayerStats(kept[k])]
      sorted == SortPlayers(players, sortBy)
  IN  SubSeq(sorted, 1, Min(limit, Len(sorted)))

\* events.ts:799..800 and 931..957: the loop is over; the arguments are
\* clamped and the players list is built.
FinishLeaderboard(limitArg, minEventsArg, sortBy) ==
  /\ pos.e > Len(eventStandings)
  /\ board = Nothing
  /\ LET limit == Min(MAX_LEADERBOARD_LIMIT, Max(1, limitArg))
         minEvents == Max(1, minEventsArg)
     IN  board' = Some([players |-> BuildPlayers(agg, minEvents, sortBy, limit),
                        limit |-> limit, minEvents |-> minEvents,
                        sortBy |-> sortBy])
  /\ UNCHANGED <<eventStandings, pos, agg, nonLeaderVars>>

BoardNext ==
  \/ AggregateNext
  \/ \E limitArg \in 1..MAX_LEADERBOARD_LIMIT, minEventsArg \in MinEventsArgs,
        sortBy \in SORT_OPTIONS :
       FinishLeaderboard(limitArg, minEventsArg, sortBy)

(***************************************************************************)
(* Specifications.                                                         *)
(***************************************************************************)
Init == CacheInit /\ RetryInit /\ PureInit /\ ResolveInit /\ LeaderIdle

Next == CacheNext

Spec == Init /\ [][Next]_vars

SpecResolve == Init /\ [][ResolveNext]_vars

SpecPages == Init /\ [][PagesNext]_vars

SpecRetry == Init /\ [][RetryNext]_vars

(***************************************************************************)
(* SpecBackoff: getJitteredBackoffDelayMs applied to one triple of         *)
(* arguments.                                                              *)
(***************************************************************************)
\* Largest attempt number tried.
MaxAttempt == 10

\* Base delays tried: zero, small, the default, at and beyond the cap.
BackoffBases == {0, 1, 100, DEFAULT_RETRY_DELAY_MS, 3000, MAX_BACKOFF_DELAY_MS,
                 MAX_BACKOFF_DELAY_MS + 1, 20000}

\* random = k / RandSteps; -1 and RandSteps + 1 are draws outside [0, 1].
BackoffInputs ==
  [attempt : 0..MaxAttempt, baseDelayMs : BackoffBases, k : -1..(RandSteps + 1)]

BackoffInit ==
  /\ CacheInit /\ RetryInit /\ ResolveInit /\ LeaderIdle
  /\ fnIn \in BackoffInputs
  /\ fnOut = Nothing

ApplyBackoff ==
  /\ fnOut = Nothing
  /\ fnOut' = Some(getJitteredBackoffDelayMs(fnIn.attempt, fnIn.baseDelayMs, fnIn.k))
  /\ UNCHANGED <<fnIn, nonPureVars>>

SpecBackoff == BackoffInit /\ [][ApplyBackoff]_vars

(***************************************************************************)
(* SpecRecord: parseRecordToWinsLosses applied to one record.              *)
(***************************************************************************)
\* Decimal numerals with the number each denotes.
Numerals ==
  { [text |-> <<"0">>, value |-> 0], [text |-> <<"3">>, value |-> 3],
    [text |-> <<"4">>, value |-> 4], [text |-> <<"1", "2">>, value |-> 12] }

NoNumeral == [text |-> << >>, value |-> 0]

\* A field of a record as written: bare, or with a space on each side.
Padded(t, spaced) == IF spaced THEN <<" ">> \o t \o <<" ">> ELSE t

\* W-L and W-L-T records: the text, and the numbers it was written from.
WrittenRecords ==
  { [record |-> Val(Trim(Padded(w.text, sp) \o <<"-">> \o Padded(l.text, sp)
                         \o (IF t = NoNumeral THEN << >>
                             ELSE <<"-">> \o Padded(t.text, sp)))),
     written |-> TRUE, wins |-> w.value, losses |-> l.value] :
    w \in Numerals, l \in Numerals, t \in Numerals \cup {NoNumeral},
    sp \in BOOLEAN }

\* undefined, null, "", "  ", "invalid", "garbage", "3", "3-", "-3", "a-b"
OtherRecords ==
  { [record |-> r, written |-> FALSE, wins |-> 0, losses |-> 0] :
    r \in { Undef, Null, Val(<< >>), Val(<<" ", " ">>),
            Val(<<"i", "n", "v", "a", "l", "i", "d">>),
            Val(<<"g", "a", "r", "b", "a", "g", "e">>),
            Val(<<"3">>), Val(<<"3", "-">>), Val(<<"-", "3">>),
            Val(<<"a", "-", "b">>) } }

RecordInit ==
  /\ CacheInit /\ RetryInit /\ ResolveInit /\ LeaderIdle
  /\ fnIn \in WrittenRecords \cup OtherRecords
  /\ fnOut = Nothing

ApplyParseRecord ==
  /\ fnOut = Nothing
  /\ fnOut' = Some(parseRecordToWinsLosses(fnIn.record))
  /\ UNCHANGED <<fnIn, nonPureVars>>

SpecRecord == RecordInit /\ [][ApplyParseRecord]_vars

\* The aggregation loop of get_player_leaderboard over any input.
SpecLeaderboard == LeaderInit /\ [][AggregateNext]_vars

\* The entries behind the result list: those without a per-event name (the
\* name plays no part in the filter, the order and the cut).
BoardEntries == {e \in Entries : e.user_event_status = Nothing}

BoardInit ==
  /\ CacheInit /\ RetryInit /\ PureInit /\ ResolveInit
  /\ \E n \in 0..MaxEntries :
       \E list \in [1..n -> BoardEntries], cut \in 0..MaxEntries :
         /\ cut < n \/ cut = 0
         /\ eventStandings = AsEventStandings(list, cut)
  /\ pos = [e |-> 1, i |-> 0]
  /\ agg = << >>
  /\ board = Nothing

\* The loop followed by the filter, sort and cut of the result.
SpecBoard == BoardInit /\ [][BoardNext]_vars

(***************************************************************************)
(* The get_event_standings tool (tools/events.ts:295..390) next to         *)
(* getEventStandings (api.ts:404..438) on the same upstream: one event     *)
(* that is still running, so that no cache is involved, and for each of    *)
(* its rounds what the standings endpoint answers on every request.        *)
(* fnIn is that upstream, fnOut the two calls after fetchEventDetails      *)
(* returned the event to both.                                             *)
(***************************************************************************)
ToolEventIds == {1, 2, 3, 4, 5}
RoundAnswers == {"data", "empty", "error"}
RunningShape == [display_status |-> "inProgress", event_lifecycle_status |-> UNDEFINED]

RoundIdsOf(eventId) ==
  LET rs == FlattenRounds(TournamentPhases(eventId), 0)
  IN  {rs[k].id : k \in 1..Len(rs)}

\* The body of a successful answer of /tournament-rounds/{id}/standings.
RoundResponse(roundId, answer) ==
  [results |-> Standings(roundId, IF answer = "data" THEN 1 ELSE 0),
   next_page_number |-> Nothing]

\* events.ts:321..331: every round of every phase, in the order of the event.
RECURSIVE ToolRounds(_)
ToolRounds(phases) ==
  IF phases = << >> THEN << >>
  ELSE [i \in 1..Len(Head(phases).rounds) |->
          [id |-> Head(phases).rounds[i].id,
           round_number |-> Head(phases).rounds[i].round_number]]
       \o ToolRounds(Tail(phases))

\* events.ts:333: (a, b) => b.round_number - a.round_number
ToolRoundBefore(a, b) == b.round_number - a.round_number < 0

RECURSIVE InsertToolRound(_, _)
InsertToolRound(sorted, r) ==
  IF sorted = << >> THEN <<r>>
  ELSE IF ToolRoundBefore(r, Head(sorted)) THEN <<r>> \o sorted
  ELSE <<Head(sorted)>> \o InsertToolRound(Tail(sorted), r)

\* Array.prototype.sort (stable) with that comparator.
RECURSIVE SortToolRounds(_)
SortToolRounds(rs) ==
  IF rs = << >> THEN << >>
  ELSE InsertToolRound(SortToolRounds(SubSeq(rs, 1, Len(rs) - 1)), rs[Len(rs)])

\* The tool's frame: awaiting the event, awaiting the standings of the head
\* of allRounds, or returned with the round it reports (if any).
ToolAwaitingEvent ==
  [pc |-> "event", allRounds |-> << >>, selected |-> Nothing, text |-> "none"]

\* events.ts:346..378: the loop arrives at its next round or falls through.
ToolLoop(t) ==
  IF t.allRounds = << >>
    THEN [t EXCEPT !.pc = "returned", !.text = "No standings available"]
    ELSE [t EXCEPT !.pc = "round"]

\* events.ts:308..346: after fetchEventDetails.
ToolAfterEvent(t, eventId) ==
  LET phases == TournamentPhases(eventId)
      allRounds == SortToolRounds(ToolRounds(phases))
  IN  IF Len(phases) = 0
        THEN [t EXCEPT !.pc = "returned", !.text = "has no tournament rounds"]
      ELSE IF Len(allRounds) = 0
        THEN [t EXCEPT !.pc = "returned", !.text = "has no completed rounds yet"]
      ELSE ToolLoop([t EXCEPT !.allRounds = allRounds])

\* events.ts:347..369: the request of the round settles.
ToolAfterRound(t, ok, response) ==
  IF ok /\ Len(response.results) > 0
    THEN [t EXCEPT !.pc = "returned", !.text = "Standings for",
                   !.selected = Some([round |-> Head(t.allRounds).id,
                                      results |-> response.results])]
    ELSE ToolLoop([t EXCEPT !.allRounds = Tail(t.allRounds)])

ToolInit ==
  /\ CacheInit /\ RetryInit /\ ResolveInit /\ LeaderIdle
  /\ \E eventId \in ToolEventIds :
       \E answers \in [RoundIdsOf(eventId) -> RoundAnswers] :
         /\ fnIn = [eventId |-> eventId, answers |-> answers]
         /\ fnOut = [tool |-> ToolAwaitingEvent,
                     ges |-> FedReturn([IdleCall EXCEPT !.top = "getEventStandings",
                                                        !.eventId = eventId],
                                       MakeEvent(eventId, RunningShape))]

ToolResumeEvent ==
  /\ fnOut.tool.pc = "event"
  /\ fnOut' = [fnOut EXCEPT !.tool = ToolAfterEvent(@, fnIn.eventId)]
  /\ UNCHANGED <<fnIn, nonPureVars>>

ToolResumeRound ==
  /\ fnOut.tool.pc = "round"
  /\ LET roundId == Head(fnOut.tool.allRounds).id
         answer == fnIn.answers[roundId]
     IN  fnOut' = [fnOut EXCEPT !.tool =
                     ToolAfterRound(@, answer # "error", RoundResponse(roundId, answer))]
  /\ UNCHANGED <<fnIn, nonPureVars>>

TGesResumeEvent ==
  /\ fnOut.ges.pc = "ges_event"
  /\ fnOut' = [fnOut EXCEPT !.ges = GesAfterEvent(@, << >>)]
  /\ UNCHANGED <<fnIn, nonPureVars>>

TGesPageResponse ==
  /\ fnOut.ges.pc = "fars_await"
  /\ LET answer == fnIn.answers[fnOut.ges.roundId]
     IN  fnOut' = [fnOut EXCEPT !.ges =
                     IF answer = "error" THEN FarsThrow(@)
                     ELSE FarsAfterPage(@, RoundResponse(@.roundId, answer))]
  /\ UNCHANGED <<fnIn, nonPureVars>>

TGesResumeRound ==
  /\ fnOut.ges.pc = "ges_round"
  /\ fnOut' = [fnOut EXCEPT !.ges = GesAfterRound(@, << >>)]
  /\ UNCHANGED <<fnIn, nonPureVars>>

ToolNext ==
  \/ ToolResumeEvent
  \/ ToolResumeRound
  \/ TGesResumeEvent
  \/ TGesPageResponse
  \/ TGesResumeRound

\* The get_event_standings tool and getEventStandings side by side.
SpecTool == ToolInit /\ [][ToolNext]_vars

(***************************************************************************)
(* Properties of the caches (checked under Spec).                          *)
(***************************************************************************)
KeySeq(m) == [i \in 1..Len(m) |-> m[i].key]

InFedPhase(c) ==
  \/ c.top = "fetchEventDetails" /\ c.pc # "idle"
  \/ c.top = "getEventStandings" /\ c.pc \in {"fed_await", "ges_event"}

InFarsPhase(c) ==
  \/ c.top = "fetchAllRoundStandings" /\ c.pc # "idle"
  \/ c.top = "getEventStandings" /\ c.pc \in {"fars_await", "ges_round"}

\* C1: a fetch of a key that an earlier fetch returned complete, with no
\* clearCaches and no eviction of the key since, sends no request and hands
\* back the value the earlier fetch returned (fetchEventDetails on a finished
\* event, fetchAllRoundStandings(roundId, true) on a non-empty round).
C1_KnownKeyServedFromCache ==
  \A p \in Procs :
    LET c == calls[p]
    IN  c.expect # Nothing =>
          /\ ~c.issued
          /\ InFedPhase(c) =>
               /\ FedReturned(c)
               /\ Some(FedValue(c)) = c.expect
          /\ InFarsPhase(c) =>
               /\ FarsReturned(c)
               /\ Some(FarsValue(c)) = c.expect

C1_Witness ==
  /\ calls[1].top = "fetchAllRoundStandings" /\ calls[1].pc = "returned"
  /\ calls[1].expect # Nothing /\ ~calls[1].issued
  /\ calls[2].top = "fetchEventDetails" /\ calls[2].pc = "returned"
  /\ calls[2].expect # Nothing /\ ~calls[2].issued

\* C2: every entry of the event cache is a finished event stored under its
\* own id; an event the upstream has not finished is not in the cache, and a
\* fetchEventDetails that hands back an unfinished event has sent a request.
C2_OnlyFinishedEventsCached ==
  /\ \A i \in 1..Len(eventCache) :
       /\ Finished(eventCache[i].value)
       /\ eventCache[i].value.id = eventCache[i].key
  /\ \A e \in EventIds : ~Finished(upstreamEvent[e]) => ~MapHas(eventCache, e)
  /\ \A p \in Procs :
       (InFedPhase(calls[p]) /\ FedReturned(calls[p]) /\ ~Finished(FedValue(calls[p])))
         => calls[p].issued

C2_Witness ==
  /\ eventCache # << >>
  /\ \E p \in Procs :
       /\ calls[p].top = "fetchEventDetails" /\ calls[p].pc = "returned"
       /\ calls[p].result[1].display_status = "inProgress"
       /\ ~Finished(calls[p].result[1])
       /\ calls[p].issued

\* C3: neither cache ever holds more entries than its maximum.
C3_CachesBounded ==
  /\ Len(eventCache) <= EVENT_CACHE_MAX_SIZE
  /\ Len(roundStandingsCache) <= ROUND_STANDINGS_CACHE_MAX_SIZE

C3_Witness ==
  /\ Len(eventCache) = EVENT_CACHE_MAX_SIZE
  /\ Len(roundStandingsCache) = ROUND_STANDINGS_CACHE_MAX_SIZE
  /\ evicted # {}
  /\ \E p \in Procs : calls[p].pc \in {"fed_await", "fars_await"}

\* What a step that stores into a full cache must do: the cache ends at its
\* maximum, as many keys left as came in, and every key that left was
\* inserted before every key that stayed.
EvictionIsFifo(old, new, older, maxSize) ==
  LET gone == Gone(old, new)
  IN  (gone # {} /\ new # << >>) =>
        /\ Len(new) = maxSize
        /\ Cardinality(gone) = Cardinality(MapKeys(new) \ MapKeys(old))
        /\ \A k \in gone, x \in MapKeys(old) \ gone : <<k, x>> \in older

\* The entry list is in insertion order, and a key a fetch has just returned
\* is in the cache.
OrderIsInsertionOrder(cache, older, known) ==
  /\ \A i, j \in 1..Len(cache) : i < j => <<cache[i].key, cache[j].key>> \in older
  /\ \A k \in DOMAIN known : known[k] # Nothing => MapHas(cache, k)

\* C4: an insert into a full cache removes exactly the oldest-inserted
\* entries down to the maximum, and a step that only reads (a cache hit)
\* leaves the eviction order as it was.
C4_FifoEviction ==
  /\ [](/\ OrderIsInsertionOrder(eventCache, olderEvent, eventKnown)
        /\ OrderIsInsertionOrder(roundStandingsCache, olderRound, roundKnown))
  /\ [][/\ EvictionIsFifo(eventCache, eventCache', olderEvent, EVENT_CACHE_MAX_SIZE)
        /\ EvictionIsFifo(roundStandingsCache, roundStandingsCache', olderRound,
                          ROUND_STANDINGS_CACHE_MAX_SIZE)
        /\ MapKeys(eventCache') = MapKeys(eventCache)
             => KeySeq(eventCache') = KeySeq(eventCache)
        /\ MapKeys(roundStandingsCache') = MapKeys(roundStandingsCache)
             => KeySeq(roundStandingsCache') = KeySeq(roundStandingsCache)]_vars

\* An event that was served from the cache is evicted by the next insert
\* while a key inserted after it stays.
C4_Witness ==
  /\ Len(eventCache) = EVENT_CACHE_MAX_SIZE
  /\ \E p \in Procs :
       /\ calls[p].top = "fetchEventDetails" /\ calls[p].pc = "returned"
       /\ calls[p].wasCached
       /\ <<"event", calls[p].eventId>> \in evicted

\* The fetchAllRoundStandings activity of c runs with isPastEvent = false.
FreshFars(c) == InFarsPhase(c) /\ ~c.isPastEvent

\* C5: fetchAllRoundStandings with isPastEvent = false sends a request even
\* when the round is cached, and none of its steps changes the round cache.
C5_FreshFetchBypassesCache ==
  [][\A p \in Procs :
       LET c == calls[p]
           d == calls'[p]
       IN  /\ (d # c /\ c.pc \in {"idle", "ges_event", "ges_round"} /\ FreshFars(d)) =>
                /\ d.pc = "fars_await"
                /\ d.issued
                /\ roundStandingsCache' = roundStandingsCache
           /\ (d # c /\ c.pc = "fars_await" /\ ~c.isPastEvent) =>
                roundStandingsCache' = roundStandingsCache]_vars

C5_Witness ==
  \E p \in Procs :
    /\ calls[p].top = "fetchAllRoundStandings"
    /\ calls[p].pc = "fars_await"
    /\ ~calls[p].isPastEvent
    /\ calls[p].wasCached
    /\ MapHas(roundStandingsCache, calls[p].roundId)

(***************************************************************************)
(* Properties of fetchWithRetry (checked under SpecRetry).                 *)
(***************************************************************************)
Terminal == rpc \in {"returned", "thrown"}

\* The retry budget as the caller states it: policy.maxRetries, 1 by default.
BudgetOf(pol) == IF pol.maxRetries = Nothing THEN 1 ELSE pol.maxRetries[1]

ClaimedRetryableStatuses == {408, 425, 429, 500, 502, 503, 504}

\* Network-level and timeout failures of an attempt.
TransportOrTimeout(error) == error \in {NetworkError, TimeoutReason, SignalTimeoutError}

\* The last attempt ended in a way the retry rule names.
LastIsRetryable ==
  \/ last.kind = "response" /\ last.status \in ClaimedRetryableStatuses
  \/ last.kind = "error" /\ TransportOrTimeout(last.error)

\* C6: with maxRetries >= 0 a call makes at least 1 and at most
\* maxRetries + 1 attempts (at most 2 with the default policy), and exactly 1
\* when the first attempt returns a 2xx response.
C6_AttemptsBounded ==
  BudgetOf(policy) >= 0 =>
    /\ fetchCalls <= BudgetOf(policy) + 1
    /\ policy.maxRetries = Nothing => fetchCalls <= 2
    /\ rpc # "init" => fetchCalls >= 1
    /\ (Terminal /\ firstOk) => fetchCalls = 1 /\ rpc = "returned"

C6_Witness ==
  /\ Terminal
  /\ policy.maxRetries = Some(MaxRetriesBound)
  /\ fetchCalls = MaxRetriesBound + 1
  /\ ~firstOk

\* C7: after attempt a another attempt follows if and only if a < maxRetries
\* and the attempt ended with a network-level or timeout error or with one of
\* the retryable statuses; any other response is returned and any other error
\* thrown at once, with no wait.
C7_RetryIffEligible ==
  /\ rpc \in {"draining", "sleeping"} =>
       attempt < BudgetOf(policy) /\ LastIsRetryable
  /\ (Terminal /\ fetchCalls >= 1) =>
       /\ ~(attempt < BudgetOf(policy) /\ LastIsRetryable)
       /\ last.kind = "response" => rpc = "returned"
       /\ last.kind = "error" => rpc = "thrown"

\* C8: when attempt number maxRetries ends with a retryable status, that
\* response is returned; when it ends with a transport or timeout error, that
\* error is thrown.
C8_ExhaustedOutcome ==
  (Terminal /\ fetchCalls >= 1 /\ attempt = BudgetOf(policy)) =>
    /\ (last.kind = "response" /\ last.status \in ClaimedRetryableStatuses) =>
         /\ rpc = "returned"
         /\ result = Some([kind |-> "response", status |-> last.status,
                           header |-> last.header])
    /\ (last.kind = "error" /\ TransportOrTimeout(last.error)) =>
         /\ rpc = "thrown"
         /\ result = Some([kind |-> "error", error |-> last.error])

C8_Witness ==
  /\ rpc = "returned"
  /\ BudgetOf(policy) >= 1
  /\ attempt = BudgetOf(policy)
  /\ fetchCalls = attempt + 1
  /\ last.kind = "response" /\ last.status = 503

\* C9: once the caller's signal is aborted during a call, the attempt in
\* flight is aborted, no further attempt is started, and the call fails.
C9_AbortStopsRetrying ==
  extAborted # Nothing =>
    /\ rpc = "fetching" => ctrl # Nothing
    /\ callsAfterAbort = 0
    /\ Terminal => rpc = "thrown"

\* The wait the Retry-After rule prescribes after the last response, if any.
ServerDirectedDelay ==
  IF last.status \in {429, 503} /\ last.header.means \in {"seconds", "date"}
    THEN Some(Max(0, Min(IF last.header.means = "seconds"
                           THEN last.header.ms
                           ELSE last.header.at - NowMs,
                         60000)))
    ELSE Nothing

\* C10: after a retryable response the wait is the Retry-After value clamped
\* to [0, 60000] when the status is 429 or 503 and the header parses to a
\* non-negative value, and the jittered backoff in every other case.
C10_RetryDelayChoice ==
  (rpc = "sleeping" /\ last.kind = "response") =>
    delay = IF ServerDirectedDelay # Nothing
              THEN ServerDirectedDelay
              ELSE Some(getJitteredBackoffDelayMs(attempt, RetryDelayOf(policy), rand[1]))

C10_Witness ==
  /\ rpc = "sleeping"
  /\ last.kind = "response" /\ last.status = 429
  /\ last.header.means = "date" /\ last.header.at = 12000
  /\ delay = Some(2000)
  /\ attempt = 1

(***************************************************************************)
(* Properties of getJitteredBackoffDelayMs (checked under SpecBackoff).    *)
(***************************************************************************)
\* C11: for every attempt >= 0, base delay >= 0 and jitter draw the backoff
\* lies in [0, 5000] ms; attempt 10 with base 5000 and the largest draw
\* gives exactly 5000.
C11_BackoffWithinCap ==
  fnOut # Nothing =>
    /\ fnOut[1] >= 0
    /\ fnOut[1] <= 5000
    /\ (fnIn.attempt = 10 /\ fnIn.baseDelayMs = 5000 /\ fnIn.k = RandSteps)
         => fnOut[1] = 5000

C11_Witness ==
  /\ fnIn.attempt = 10 /\ fnIn.baseDelayMs = 5000 /\ fnIn.k = RandSteps
  /\ fnOut = Some(5000)

(***************************************************************************)
(* Properties of getEventStandings and fetchAllEventStandings (checked     *)
(* under SpecResolve).                                                     *)
(***************************************************************************)
\* The rounds of an event with the phase each is listed in.
RoundsOfEvent(eventId) ==
  LET phases == TournamentPhases(eventId)
  IN  { [id |-> phases[p].rounds[i].id,
         round_number |-> phases[p].rounds[i].round_number,
         phase_index |-> p - 1] :
        <<p, i>> \in { <<p, i>> \in (1..Len(phases)) \X (1..3) :
                         i <= Len(phases[p].rounds) } }

\* The order of the claim: later phase first, then higher round number,
\* then higher round id.
ClaimedEarlier(a, b) ==
  \/ a.phase_index > b.phase_index
  \/ a.phase_index = b.phase_index /\ a.round_number > b.round_number
  \/ /\ a.phase_index = b.phase_index /\ a.round_number = b.round_number
     /\ a.id > b.id

\* The frames of getEventStandings that hold their event.
Resolving == {j \in Slots : res[j].top = "getEventStandings" /\ res[j].event # Nothing}

\* C12: getEventStandings enters the rounds one at a time, the k-th round
\* entered being the k-th in the order phase index, round number, round id
\* (all descending); a round is entered only after every round before it
\* gave no data; and a non-null result is the event with the whole list of
\* the round entered last, which is non-empty.
C12_RoundsNewestFirst ==
  \A j \in Resolving :
    LET c == res[j]
        tried == hist[j].tried
        outcome == hist[j].outcome
        rounds == RoundsOfEvent(c.eventId)
        n == Len(tried)
    IN  /\ \A k \in 1..n :
             \E r \in rounds :
               /\ r.id = tried[k]
               /\ Cardinality({q \in rounds : ClaimedEarlier(q, r)}) = k - 1
        /\ Len(outcome) \in {n - 1, n}
        /\ \A k \in 1..(n - 1) : outcome[k] # "data"
        /\ (c.pc = "returned" /\ c.result # Nothing) =>
             /\ n >= 1
             /\ Len(outcome) = n
             /\ outcome[n] = "data"
             /\ c.result[1].event.id = c.eventId
             /\ Len(c.result[1].standings) >= 1
             /\ \A k \in 1..Len(c.result[1].standings) :
                  c.result[1].standings[k] = <<tried[n], k>>

\* Event 4 resolved from its third candidate: rounds 7 and 6 (same phase,
\* same number) and then 5 were entered, 5 gave the list returned.
C12_Witness ==
  \E j \in Resolving :
    /\ res[j].pc = "returned"
    /\ res[j].result # Nothing
    /\ res[j].eventId = 4
    /\ hist[j].tried = <<7, 6, 5>>
    /\ hist[j].outcome \in {<<"empty", "failed", "data">>, <<"failed", "empty", "data">>}

\* C13: getEventStandings fails only when the event request failed, never
\* because a round request did: after a round that failed (or was empty)
\* the next round, if there is one, is entered; and it returns null exactly
\* when the event has no round or every round failed or was empty.
C13_RoundFailureIsEmpty ==
  \A j \in Slots :
    LET c == res[j]
        tried == hist[j].tried
        outcome == hist[j].outcome
        total == Cardinality(RoundsOfEvent(c.eventId))
    IN  c.top = "getEventStandings" =>
          /\ c.pc = "threw" => (hist[j].eventFailed /\ tried = << >>)
          /\ \A k \in 1..Len(outcome) :
               (outcome[k] # "data" /\ k < total) => Len(tried) >= k + 1
          /\ (c.pc = "returned") =>
               (c.result = Nothing <=>
                  /\ Len(outcome) = total
                  /\ \A k \in 1..total : outcome[k] # "data")

\* Every round request of event 4 failed and getEventStandings returned
\* null.
C13_Witness ==
  \E j \in Slots :
    /\ res[j].top = "getEventStandings"
    /\ res[j].eventId = 4
    /\ res[j].pc = "returned"
    /\ res[j].result = Nothing
    /\ hist[j].outcome = <<"failed", "failed", "failed">>

(***************************************************************************)
(* Properties of fetchAllRoundStandings called directly (checked under     *)
(* SpecPages).                                                             *)
(***************************************************************************)
\* C14: one call of fetchAllRoundStandings issues at most
\* STANDINGS_MAX_PAGES page requests whatever the pages say; a page that
\* arrives without a next page number, or with fewer than
\* STANDINGS_PAGE_SIZE results, or as the STANDINGS_MAX_PAGES-th, ends the
\* call with the list gathered; any other page is followed by one more
\* request.
C14_PageLoopBounded ==
  /\ [](hist[1].pages <= STANDINGS_MAX_PAGES)
  /\ [][ (/\ res[1].top = "fetchAllRoundStandings"
          /\ res[1].pc = "fars_await"
          /\ res'[1] # res[1]
          /\ res'[1].pc # "threw")
         => IF \/ ~hist'[1].lastNext
               \/ hist'[1].lastLen < STANDINGS_PAGE_SIZE
               \/ hist[1].pages = STANDINGS_MAX_PAGES
              THEN /\ res'[1].pc = "returned"
                   /\ hist'[1].pages = hist[1].pages
                   /\ Len(res'[1].result[1]) = Len(res[1].all) + hist'[1].lastLen
              ELSE /\ res'[1].pc = "fars_await"
                   /\ hist'[1].pages = hist[1].pages + 1 ]_vars

\* The call ended at the cap: STANDINGS_MAX_PAGES full pages, the last one
\* still announcing a next page.
C14_Witness ==
  /\ res[1].top = "fetchAllRoundStandings"
  /\ res[1].pc = "returned"
  /\ hist[1].pages = STANDINGS_MAX_PAGES
  /\ hist[1].lastNext
  /\ hist[1].lastLen = STANDINGS_PAGE_SIZE
  /\ Len(res[1].result[1]) = STANDINGS_MAX_PAGES * STANDINGS_PAGE_SIZE

(***************************************************************************)
(* Properties of fetchAllEventStandings (checked under SpecResolve).       *)
(***************************************************************************)
\* The positions among the first n whose getEventStandings returned data,
\* in order.
DataSlots(n) == SelectSeq([j \in 1..n |-> j], LAMBDA j : hist[j].final = "data")

\* C15: fetchAllEventStandings never fails; what it has gathered after each
\* iteration, and what it returns, is the results of exactly the positions
\* whose resolution returned an event with non-empty standings, in input
\* order; the leaderboard result lists exactly their ids in eventsIncluded
\* and their number in eventsAnalyzed.
C15_ResolvedEventsInOrder ==
  /\ faes.pc # "threw"
  /\ faes.pc \in {"await", "returned"} =>
       LET done == DataSlots(faes.i - 1)
       IN  /\ \A j \in 1..(faes.i - 1) : hist[j].final # "none"
           /\ Len(faes.results) = Len(done)
           /\ \A k \in 1..Len(done) :
                /\ faes.results[k] = hist[done[k]].value[1]
                /\ faes.results[k].event.id = faes.ids[done[k]]
                /\ Len(faes.results[k].standings) >= 1
  /\ faes.pc = "returned" => faes.i = Len(faes.ids) + 1
  /\ lb # Nothing =>
       LET done == DataSlots(Len(faes.ids))
       IN  /\ faes.pc = "returned"
           /\ lb[1].eventsAnalyzed = Len(done)
           /\ lb[1].eventsIncluded = [k \in 1..Len(done) |-> faes.ids[done[k]]]

\* Events 4 and 1 were asked for in this order, both resolved, and the
\* leaderboard lists them in this order.
C15_Witness ==
  /\ faes.pc = "returned"
  /\ faes.ids = <<4, 1>>
  /\ hist[1].final = "data" /\ hist[2].final = "data"
  /\ lb = Some([eventsAnalyzed |-> 2, eventsIncluded |-> <<4, 1>>])

\* The frames with an upstream request outstanding.
InFlight == {j \in Slots : res[j].pc \in {"fed_await", "fars_await"}}

\* C16: within one fetchAllEventStandings call the resolution of a position
\* exists only once every earlier position has finished and been taken, at
\* most one upstream request is outstanding at any moment, and the caches
\* are written in input order: no write by a position after a write by a
\* later one.
C16_OneEventAtATime ==
  /\ [](/\ \A j \in Slots :
             res[j].pc # "idle" => \A i \in 1..(j - 1) : hist[i].final # "none"
        /\ Cardinality(InFlight) <= 1)
  /\ [][writer' >= writer]_vars

\* The first position has written both caches, the second has written the
\* event cache and has a page request outstanding.
C16_Witness ==
  /\ faes.pc = "await" /\ faes.i = 2
  /\ res[2].pc = "fars_await"
  /\ writer = 2
  /\ MapKeys(eventCache) = {faes.ids[1], faes.ids[2]}
  /\ Len(eventCache) = 2
  /\ Len(roundStandingsCache) = 1

(***************************************************************************)
(* Properties of parseRecordToWinsLosses (checked under SpecRecord).       *)
(***************************************************************************)
\* C20: for a record written W-L or W-L-T, with or without spaces around
\* the dashes, parseRecordToWinsLosses returns W as wins and L as losses;
\* for undefined, null, an empty or blank text, a single number and text
\* that is no record it returns wins 0 and losses 0.
C20_RecordParsed ==
  fnOut # Nothing =>
    fnOut[1] = IF fnIn.written
                 THEN [wins |-> fnIn.wins, losses |-> fnIn.losses]
                 ELSE [wins |-> 0, losses |-> 0]

\* "3 - 0 - 12" gave wins 3, losses 0.
C20_Witness ==
  /\ fnIn.record = Val(<<"3", " ", "-", " ", "0", " ", "-", " ", "1", "2">>)
  /\ fnOut = Some([wins |-> 3, losses |-> 0])

(***************************************************************************)
(* Properties of the leaderboard aggregation (checked under                *)
(* SpecLeaderboard).                                                       *)
(***************************************************************************)
RECURSIVE Concat(_)
Concat(lists) ==
  IF lists = << >> THEN << >> ELSE Head(lists) \o Concat(Tail(lists))

\* The entries the loop has gone through, in order.
Processed ==
  IF pos.e > Len(eventStandings) THEN Concat(eventStandings)
  ELSE Concat(SubSeq(eventStandings, 1, pos.e - 1))
         \o SubSeq(eventStandings[pos.e], 1, pos.i)

\* The identity of an entry as the claims put it: the numeric player id
\* when there is one, otherwise the first name available among
\* player.best_identifier, player_name, display_name, username.
ClaimedIdentity(entry) ==
  LET names == <<PlayerField(entry, "best_identifier"), entry.player_name,
                 entry.display_name, entry.username>>
      present == {n \in 1..4 : IsValue(names[n])}
      first == CHOOSE n \in present : \A m \in present : n <= m
  IN  IF IsValue(PlayerField(entry, "id"))
        THEN [kind |-> "id", id |-> PlayerField(entry, "id")[2], name |-> ""]
      ELSE IF present # {}
        THEN [kind |-> "name", id |-> 0, name |-> names[first][2]]
      ELSE [kind |-> "none", id |-> 0, name |-> ""]

Unidentified == [kind |-> "none", id |-> 0, name |-> ""]

\* The wins and losses an entry states: its numeric fields, else its
\* record text read as W-L or W-L-T.
ClaimedScore(entry) ==
  LET text == Coalesce(entry.record, entry.match_record)
  IN  IF IsValue(entry.wins) /\ IsValue(entry.losses)
        THEN [wins |-> entry.wins[2], losses |-> entry.losses[2]]
      ELSE IF text \in {Record30, Record301} THEN [wins |-> 3, losses |-> 0]
      ELSE IF text = Record21 THEN [wins |-> 2, losses |-> 1]
      ELSE [wins |-> 0, losses |-> 0]

RECURSIVE SumOf(_, _)
SumOf(list, field) ==
  IF list = << >> THEN 0
  ELSE ClaimedScore(Head(list))[field] + SumOf(Tail(list), field)

\* The processed entries of one identity.
EntriesOf(identity) ==
  SelectSeq(Processed, LAMBDA e : ClaimedIdentity(e) = identity)

\* Player 42 with record "3-0" in one event and "2-1" in the next.
ExampleStandings ==
  << << [NoFields EXCEPT !.player = Player(Val(42), Val("Ann A")),
                         !.record = Record30, !.rank = Val(1)] >>,
     << [NoFields EXCEPT !.player = Player(Val(42), Val("Ann A")),
                         !.record = Record21, !.rank = Val(2)] >> >>

\* C17: at every point of the loop the aggregate of every identity seen so
\* far holds, as wins and losses, the sums of the wins and losses of the
\* processed entries of that identity; player 42 with "3-0" in one event and
\* "2-1" in the next ends with wins 5, losses 1, eventsPlayed 2.
C17_TotalsAreSums ==
  /\ \A p \in 1..Len(Processed) :
       LET identity == ClaimedIdentity(Processed[p])
           rec == MapGet(agg, standingPlayerKey(Processed[p]))
       IN  identity # Unidentified =>
             /\ rec # Nothing
             /\ rec[1].wins = SumOf(EntriesOf(identity), "wins")
             /\ rec[1].losses = SumOf(EntriesOf(identity), "losses")
  /\ (eventStandings = ExampleStandings /\ pos.e = 3) =>
       /\ Len(agg) = 1
       /\ agg[1].value.wins = 5
       /\ agg[1].value.losses = 1
       /\ agg[1].value.eventsPlayed = 2

C17_Witness ==
  /\ eventStandings = ExampleStandings
  /\ pos.e = 3
  /\ agg[1].key = "player_id:42"
  /\ agg[1].value.wins = 5 /\ agg[1].value.losses = 1

\* The identities of the processed entries that have one.
Identities ==
  {ClaimedIdentity(Processed[p]) : p \in 1..Len(Processed)} \ {Unidentified}

\* C18: two processed entries go to the same aggregate exactly when they
\* have the same identity (the numeric player id when present, otherwise
\* the first name available), whatever their display names; there is one
\* aggregate per identity, holding one contribution per entry of that
\* identity; an entry without any identifier leaves every aggregate as it
\* was.
C18_GroupedByIdentity ==
  /\ [](/\ \A p, q \in 1..Len(Processed) :
             LET a == Processed[p]
                 b == Processed[q]
             IN  (/\ ClaimedIdentity(a) # Unidentified
                  /\ ClaimedIdentity(b) # Unidentified)
                   => ((standingPlayerKey(a) = standingPlayerKey(b))
                         <=> (ClaimedIdentity(a) = ClaimedIdentity(b)))
        /\ Len(agg) = Cardinality(Identities)
        /\ \A p \in 1..Len(Processed) :
             LET e == Processed[p]
                 rec == MapGet(agg, standingPlayerKey(e))
             IN  IF ClaimedIdentity(e) = Unidentified
                   THEN rec = Nothing
                   ELSE /\ rec # Nothing
                        /\ Len(rec[1].placements)
                             = Len(EntriesOf(ClaimedIdentity(e))))
  /\ [][ (/\ pos.e <= Len(eventStandings)
          /\ ClaimedIdentity(eventStandings[pos.e][pos.i + 1]) = Unidentified)
         => agg' = agg ]_vars

\* Player 42 as "Ann A" and as "Annie" (with a per-event name) and an entry
\* without identifier: one aggregate with two contributions.
C18_Witness ==
  /\ pos.e > Len(eventStandings)
  /\ Len(Processed) = 3
  /\ {ClaimedIdentity(Processed[p]) : p \in 1..3}
       = {Unidentified, [kind |-> "id", id |-> 42, name |-> ""]}
  /\ \E p, q \in 1..3 :
       /\ PlayerField(Processed[p], "best_identifier") = Val("Ann A")
       /\ PlayerField(Processed[q], "best_identifier") = Val("Annie")
  /\ Len(agg) = 1
  /\ Len(agg[1].value.placements) = 2

\* The entry carries a per-event display name.
CarriesPerEventName(entry) == IsValue(UserEventStatusName(entry))

\* C19: once an entry carrying a per-event display name
\* (user_event_status.best_identifier) has been processed for an identity,
\* the name of its aggregate is, from then on, the per-event display name of
\* one of the processed entries of that identity.
C19_PerEventNameWins ==
  \A p \in 1..Len(Processed) :
    LET identity == ClaimedIdentity(Processed[p])
        mine == EntriesOf(identity)
        named == {k \in 1..Len(mine) : CarriesPerEventName(mine[k])}
        rec == MapGet(agg, standingPlayerKey(Processed[p]))
    IN  (identity # Unidentified /\ named # {}) =>
          /\ rec # Nothing
          /\ rec[1].displayName \in {UserEventStatusName(mine[k])[2] : k \in named}

(***************************************************************************)
(* Properties of the leaderboard result (checked under SpecBoard).         *)
(***************************************************************************)
\* The aggregates that reach the threshold, in map order.
Qualifying(minEvents) ==
  SelectSeq(agg, LAMBDA e : e.value.eventsPlayed >= minEvents)

\* C21: every player of the result has eventsPlayed >= min_events, with
\* eventsPlayed as accumulated over all events; and the result has
\* min(limit, number of aggregates reaching the threshold) players, so no
\* place goes to, or is lost to, an aggregate below the threshold.
C21_ThresholdBeforeLimit ==
  board # Nothing =>
    LET b == board[1]
        ok == Qualifying(b.minEvents)
    IN  /\ pos.e > Len(eventStandings)
        /\ \A k \in 1..Len(b.players) :
             /\ b.players[k].eventsPlayed >= b.minEvents
             /\ \E q \in 1..Len(ok) :
                  /\ ok[q].key = b.players[k].key
                  /\ ok[q].value.eventsPlayed = b.players[k].eventsPlayed
        /\ Len(b.players) = Min(b.limit, Len(ok))

\* min_events 2 and limit 1 by total wins: of two aggregates the one with
\* more wins has a single entry and is left out, the other takes the place.
C21_Witness ==
  /\ board # Nothing
  /\ board[1].minEvents = 2 /\ board[1].limit = 1 /\ board[1].sortBy = "total_wins"
  /\ Len(agg) = 2
  /\ Len(board[1].players) = 1
  /\ \E k \in 1..2 :
       /\ agg[k].value.eventsPlayed = 1
       /\ agg[k].value.wins > board[1].players[1].totalWins

\* The position in the input of the first entry that went to the aggregate.
FirstSeen(key) ==
  CHOOSE p \in 1..Len(Processed) :
    /\ standingPlayerKey(Processed[p]) = key
    /\ \A q \in 1..(p - 1) : standingPlayerKey(Processed[q]) # key

\* The best placement of an aggregate.
BestOf(e) ==
  CHOOSE pl \in {e.value.placements[k] : k \in 1..Len(e.value.placements)} :
    \A k \in 1..Len(e.value.placements) : pl <= e.value.placements[k]

\* a ranks strictly above b in the claimed order.
ClaimedAbove(a, b, sortBy) ==
  LET gamesA == a.value.wins + a.value.losses
      gamesB == b.value.wins + b.value.losses
      \* rate(a) > rate(b), a rate being wins / games, or 0 without games
      higherRate ==
        IF gamesA = 0 THEN FALSE
        ELSE IF gamesB = 0 THEN a.value.wins > 0
        ELSE a.value.wins * gamesB > b.value.wins * gamesA
  IN  CASE sortBy = "total_wins" -> a.value.wins > b.value.wins
        [] sortBy = "events_played" -> a.value.eventsPlayed > b.value.eventsPlayed
        [] sortBy = "win_rate" -> higherRate
        [] OTHER -> BestOf(a) < BestOf(b)

\* C22: the result is the first limit elements of the aggregates reaching
\* the threshold, ordered by the selected key (total wins, events played or
\* win rate descending, best placement ascending; the win rate of a player
\* without games is 0), aggregates with equal keys in the order their
\* identities first appeared in the input.
C22_SortedThenCut ==
  board # Nothing =>
    LET b == board[1]
        ok == Qualifying(b.minEvents)
        Ahead(j, i) ==
          \/ ClaimedAbove(ok[j], ok[i], b.sortBy)
          \/ /\ ~ClaimedAbove(ok[i], ok[j], b.sortBy)
             /\ FirstSeen(ok[j].key) < FirstSeen(ok[i].key)
        place(i) == 1 + Cardinality({j \in 1..Len(ok) : Ahead(j, i)})
    IN  /\ Len(b.players) = Min(b.limit, Len(ok))
        /\ \A i \in 1..Len(ok) :
             place(i) <= b.limit =>
               /\ b.players[place(i)].key = ok[i].key
               /\ b.players[place(i)].totalWins = ok[i].value.wins
               /\ b.players[place(i)].totalLosses = ok[i].value.losses
               /\ b.players[place(i)].eventsPlayed = ok[i].value.eventsPlayed
               /\ b.players[place(i)].bestPlacement = BestOf(ok[i])

\* By win rate with limit 2: the player seen first has no games and is cut,
\* a 3-0 player is placed before a 2-1 player.
C22_Witness ==
  /\ board # Nothing
  /\ board[1].sortBy = "win_rate" /\ board[1].limit = 2 /\ board[1].minEvents = 1
  /\ Len(agg) = 3
  /\ agg[1].value.wins + agg[1].value.losses = 0
  /\ agg[2].value.wins = 2 /\ agg[2].value.losses = 1
  /\ agg[3].value.wins = 3 /\ agg[3].value.losses = 0
  /\ Len(board[1].players) = 2
  /\ board[1].players[1].key = agg[3].key
  /\ board[1].players[2].key = agg[2].key

\* C23: for every event, the get_event_standings tool reports the standings
\* of the round getEventStandings returns on the same upstream (the latest
\* round with data, a round of a later phase being later than any round of
\* an earlier phase), and no round when getEventStandings returns null.
C23_ToolSelectsSameRound ==
  (fnOut # Nothing /\ fnOut.tool.pc = "returned" /\ fnOut.ges.pc = "returned") =>
    IF fnOut.ges.result = Nothing
      THEN fnOut.tool.selected = Nothing
      ELSE /\ fnOut.tool.selected # Nothing
           /\ fnOut.tool.selected[1].results = fnOut.ges.result[1].standings

(***************************************************************************)
(* The backoff formula (checked under SpecBackoff).  The draw is           *)
(* r = k / RandSteps, so min(b * 2^n, 5000) * (0.5 + r) is the fraction    *)
(* JitteredNum / JitterDen.                                                *)
(***************************************************************************)
JitterDen == 2 * RandSteps
JitteredNum == Min(fnIn.baseDelayMs * Pow(2, fnIn.attempt), 5000) * (RandSteps + 2 * fnIn.k)
DrawInRange == fnIn.k \in 0..RandSteps

\* x is the fraction num / JitterDen rounded to a whole millisecond.
RoundsTo(x, num) ==
  LET diff == x * JitterDen - num
  IN  2 * (IF diff < 0 THEN -diff ELSE diff) <= JitterDen

\* C24 as stated: for every attempt n >= 0, base b and draw r in [0, 1] the
\* backoff is min(b * 2^n, 5000) * (0.5 + r), to the millisecond.
C24_BackoffIsJitteredExponential ==
  (fnOut # Nothing /\ DrawInRange) => RoundsTo(fnOut[1], JitteredNum)

\* C24 amended: the backoff is min(b * 2^n, 5000) * (0.5 + r) capped once
\* more at 5000 and rounded to a whole millisecond, attempts counting from
\* 0; (n=2, b=100) gives 200 at the smallest draw and 600 at the largest.
C24_BackoffIsCappedJitteredExponential ==
  (fnOut # Nothing /\ DrawInRange) =>
    /\ RoundsTo(fnOut[1], Min(JitteredNum, 5000 * JitterDen))
    /\ (fnIn.attempt = 2 /\ fnIn.baseDelayMs = 100 /\ fnIn.k = 0) => fnOut[1] = 200
    /\ (fnIn.attempt = 2 /\ fnIn.baseDelayMs = 100 /\ fnIn.k = RandSteps) => fnOut[1] = 600

C24_Witness ==
  /\ fnIn.attempt = 2 /\ fnIn.baseDelayMs = 100 /\ fnIn.k = RandSteps
  /\ fnOut = Some(600)

(***************************************************************************)
(* eventsPlayed (checked under SpecLeaderboard).                           *)
(***************************************************************************)
\* The entries of event e the loop has gone through.
ProcessedOf(e) ==
  IF e < pos.e THEN eventStandings[e]
  ELSE IF e = pos.e THEN SubSeq(eventStandings[e], 1, pos.i)
  ELSE << >>

\* The analyzed events in which the identity stored under key has appeared.
EventsWith(key) ==
  {e \in 1..Len(eventStandings) :
     \E i \in 1..Len(ProcessedOf(e)) : standingPlayerKey(ProcessedOf(e)[i]) = key}

\* C25: the eventsPlayed of every aggregate is the number of distinct
\* analyzed events in which its identity appears, and so is at most
\* eventsAnalyzed (the number of events with standings).
C25_EventsPlayedCountsEvents ==
  \A k \in 1..Len(agg) :
    /\ agg[k].value.eventsPlayed = Cardinality(EventsWith(agg[k].key))
    /\ agg[k].value.eventsPlayed <= Len(eventStandings)

(***************************************************************************)
(* Writes and reads of the caches (checked under Spec).                    *)
(***************************************************************************)
\* The step from c to d is the resumption of fetchEventDetails after its
\* request in which eventCache.set is executed (api.ts:195..196).
WritesEvent(c, d) ==
  /\ c.pc = "fed_await"
  /\ d # c
  /\ FedReturned(d)
  /\ isEventCompleted(FedValue(d))

\* The same for roundStandingsCache.set (api.ts:395..396).
WritesRound(c, d) ==
  /\ c.pc = "fars_await"
  /\ d # c
  /\ FarsReturned(d)
  /\ c.isPastEvent
  /\ Len(FarsValue(d)) > 0

\* C26: a cache key is written at most once until clearCaches, also by calls
\* for the same id that overlap at their requests: in particular, a step
\* that writes a key never finds that key in the cache.
C26_KeysWrittenOnce ==
  [][\A p \in Procs :
       /\ WritesEvent(calls[p], calls'[p]) => ~MapHas(eventCache, calls[p].eventId)
       /\ WritesRound(calls[p], calls'[p]) => ~MapHas(roundStandingsCache, calls[p].roundId)]_vars

\* The completion state of the event is known where the fetch function the
\* call is in was called: an earlier fetch returned the event complete
\* (fetchEventDetails), or the caller passed isPastEvent = true.
KnownComplete(c) ==
  IF InFedPhase(c) THEN c.expect # Nothing ELSE c.isPastEvent

\* C27 as stated: neither fetchEventDetails nor fetchAllRoundStandings looks
\* up its cache unless the caller has established that the event is complete.
C27_ReadOnlyWhenKnownComplete ==
  \A p \in Procs :
    LET c == calls[p]
    IN  ((InFedPhase(c) \/ InFarsPhase(c)) /\ c.lookedUp) => KnownComplete(c)

\* C27 amended: fetchAllRoundStandings looks up the round cache only when
\* its caller has established that the parent event is complete
\* (getEventStandings: isEventCompleted of the event it fetched);
\* fetchEventDetails looks up the event cache on every call, and what it
\* takes from the cache is a finished event.
C27_RoundCacheReadOnlyWhenComplete ==
  \A p \in Procs :
    LET c == calls[p]
    IN  /\ (InFarsPhase(c) /\ c.lookedUp) =>
             /\ c.isPastEvent
             /\ c.top = "getEventStandings" => isEventCompleted(c.event[1])
        /\ InFedPhase(c) =>
             /\ c.lookedUp
             /\ (FedReturned(c) /\ ~c.issued) => Finished(FedValue(c))

\* getEventStandings is served a round of a complete event from the cache
\* while a fetchEventDetails for an event still to come has looked up the
\* event cache and waits for its response.
C27_Witness ==
  /\ calls[1].top = "getEventStandings" /\ calls[1].pc = "ges_round"
  /\ calls[1].lookedUp /\ ~calls[1].issued /\ calls[1].wasCached
  /\ calls[2].top = "fetchEventDetails" /\ calls[2].pc = "fed_await"
  /\ calls[2].lookedUp /\ ~Finished(upstreamEvent[calls[2].eventId])

\* The step from c to d is a failure of the pending request of c.
FailsIn(c, d) ==
  /\ c.pc \in {"fed_await", "fars_await"}
  /\ d.pc = "threw" \/ (d.pc = "ges_round" /\ d.failed)

\* The step from c to d took a page and asks for the next one.
NextPage(c, d) == c.pc = "fars_await" /\ d.pc = "fars_await" /\ d.page = c.page + 1

\* C28: the step in which fetchEventDetails or fetchAllRoundStandings fails,
\* on whichever page, leaves both caches as they are, and so does every
\* step that only goes on to the next page; a cached list is never a part
\* of the round's list.
C28_FailureLeavesCaches ==
  /\ [](\A i \in 1..Len(roundStandingsCache) :
          roundStandingsCache[i].value =
            Standings(roundStandingsCache[i].key, FinalCount(roundStandingsCache[i].key)))
  /\ [][\A p \in Procs :
          (FailsIn(calls[p], calls'[p]) \/ NextPage(calls[p], calls'[p])) =>
            /\ eventCache' = eventCache
            /\ roundStandingsCache' = roundStandingsCache]_vars

\* fetchAllRoundStandings(2, true) has failed on its second page; the round
\* is not cached, the round cached before still is.
C28_Witness ==
  \E p \in Procs :
    /\ calls[p].top = "fetchAllRoundStandings" /\ calls[p].pc = "threw"
    /\ calls[p].isPastEvent /\ calls[p].roundId = 2 /\ calls[p].page = 2
    /\ Len(calls[p].all) = STANDINGS_PAGE_SIZE
    /\ KeySeq(roundStandingsCache) = <<1>>

\* C29: every list in the round cache is non-empty; a round without
\* standings is not cached even when its event is complete, so every
\* fetchAllRoundStandings(roundId, true) for it sends a request.
C29_NoEmptyListCached ==
  /\ \A i \in 1..Len(roundStandingsCache) : Len(roundStandingsCache[i].value) > 0
  /\ \A p \in Procs :
       LET c == calls[p]
       IN  (InFarsPhase(c) /\ c.isPastEvent /\ FinalCount(c.roundId) = 0) =>
             /\ c.issued
             /\ ~MapHas(roundStandingsCache, c.roundId)

\* fetchAllRoundStandings(3, true) has returned the empty list of round 3,
\* and another call for the same round has sent its request.
C29_Witness ==
  /\ calls[1].top = "fetchAllRoundStandings" /\ calls[1].pc = "returned"
  /\ calls[1].roundId = 3 /\ calls[1].isPastEvent /\ calls[1].result = Some(<< >>)
  /\ calls[2].top = "fetchAllRoundStandings" /\ calls[2].pc = "fars_await"
  /\ calls[2].roundId = 3 /\ calls[2].isPastEvent /\ calls[2].issued
  /\ roundStandingsCache # << >>

\* What getEventStandings returns for a finished event when every request
\* is answered with the upstream's data: the event, and the whole list of
\* the latest round that has one; null when no round has.
FreshResult(eventId) ==
  LET withData == {r \in RoundsOfEvent(eventId) : FinalCount(r.id) > 0}
      latest == CHOOSE r \in withData : \A o \in withData \ {r} : ClaimedEarlier(r, o)
  IN  IF withData = {} THEN Nothing
      ELSE Some([event |-> MakeEvent(eventId, upstreamEvent[eventId]),
                 standings |-> Standings(latest.id, FinalCount(latest.id))])

\* C30: for an event that is complete when getEventStandings is called, and
\* with every request of the call answered, the call returns the event and
\* the standings a fresh fetch returns, whatever the caches hold after the
\* calls, evictions and clearCaches before it.
C30_CachedEqualsFresh ==
  \A p \in Procs :
    LET c == calls[p]
    IN  (c.top = "getEventStandings" /\ c.pc = "returned"
           /\ c.pastAtCall /\ ~c.everFailed)
          => c.result = FreshResult(c.eventId)

\* getEventStandings(1) has returned the list of round 2 taken from the
\* round cache, the event being cached as well.
C30_Witness ==
  /\ calls[1].top = "getEventStandings" /\ calls[1].pc = "returned"
  /\ calls[1].eventId = 1 /\ calls[1].pastAtCall /\ ~calls[1].everFailed
  /\ calls[1].roundId = 2 /\ calls[1].wasCached /\ ~calls[1].issued
  /\ calls[1].result # Nothing
  /\ MapHas(eventCache, 1)

====
